---- MODULE Spec2Model ----
(***************************************************************************)
(* Checkpoint bootstrap protocol (periogt_runtime/checkpoint_manager.py)   *)
(* and device resolution (periogt_hpc/config.py) of periogt-demo.          *)
(*                                                                         *)
(* Spec     : worker processes calling ensure_checkpoints on one shared    *)
(*            checkpoint root, one filesystem operation per step.          *)
(* SpecDev  : _resolve_device applied to every probed hardware state.      *)
(***************************************************************************)
EXTENDS Integers, Sequences, FiniteSets, TLC

\* ------------------------------------------------------------------ bounds
NumWorkers == 2      \* worker processes sharing the checkpoint root
StaleAfter == 1      \* stale_after_s in clock ticks (330 s unless configured)
MaxFaults == 1       \* faults (failed I/O, killed process) injected in one run

Workers == 1..NumWorkers

\* ------------------------------------------------------- catalog and files
\* ARTIFACTS, in the order ARTIFACTS.items() yields them.
ArtifactNames == <<"pretrained_ckpt.zip", "finetuned_ckpt.zip">>

ARTIFACTS ==
  [a \in {"pretrained_ckpt.zip", "finetuned_ckpt.zip"} |->
     IF a = "pretrained_ckpt.zip"
     THEN [url |-> "https://zenodo.org/records/17035498/files/pretrained_ckpt.zip?download=1",
           md5 |-> "7adbcfc4da134692e9a2965270321662"]
     ELSE [url |-> "https://zenodo.org/records/17035498/files/finetuned_ckpt.zip?download=1",
           md5 |-> "f285c724142aa2c8919f6a736f6e6093"]]

\* The content of an archive file on disk: "absent" (no file), "partial" (a
\* download under way or cut short), "good" (the published bytes) or "bad"
\* (a complete download of other bytes).
\* _compute_md5 of an archive file: the catalog digest for the published
\* bytes, another digest for anything else.
Md5(name, content) ==
  IF content = "good" THEN ARTIFACTS[name].md5
  ELSE IF content = "bad" THEN "0f343b0931126a20f133d67c2b018a3b"
  ELSE "d41d8cd98f00b204e9800998ecf8427e"

\* PROPERTY_METADATA: id -> <<label, units>> (labels and units in ASCII).
PROPERTY_METADATA ==
  [p \in {"eat", "eps", "density", "tg", "nc", "eea", "eip", "xi", "cp",
          "e_amorph", "egc", "egb"} |->
     CASE p = "eat"      -> <<"Atomization energy", "eV">>
       [] p = "eps"      -> <<"Dielectric constant (eps)", "">>
       [] p = "density"  -> <<"Density", "g/cm3">>
       [] p = "tg"       -> <<"Glass transition temperature (Tg)", "K">>
       [] p = "nc"       -> <<"Refractive index (nc)", "">>
       [] p = "eea"      -> <<"Electron affinity", "eV">>
       [] p = "eip"      -> <<"Ionization potential", "eV">>
       [] p = "xi"       -> <<"Chi parameter", "">>
       [] p = "cp"       -> <<"Heat capacity (Cp)", "J/(mol.K)">>
       [] p = "e_amorph" -> <<"Young's modulus (amorphous)", "GPa">>
       [] p = "egc"      -> <<"Band gap (chain)", "eV">>
       [] p = "egb"      -> <<"Band gap (bulk)", "eV">>]

\* A file below the checkpoint root: <root>/top/sub/name, or <root>/top/name
\* when sub = "". The name is prefix ++ rest ++ "." ++ ext, cut where
\* _build_property_index looks at it: prefix is "best_model_", "best_model"
\* or "" (rest holds neither), ext is "pth" for a checkpoint.
MkFile(top, sub, prefix, rest, ext) ==
  [top |-> top, sub |-> sub, name |-> [prefix |-> prefix, rest |-> rest, ext |-> ext]]

PretrainedFile == MkFile("pretrained_ckpt", "", "", "pretrain", "pth")
EpsFile == MkFile("finetuned_ckpt", "eps", "best_model", "", "pth")
TgFile == MkFile("finetuned_ckpt", "tg", "best_model", "", "pth")

\* What each archive unpacks to, in the order extractall writes the entries.
ArchiveEntries ==
  [a \in {"pretrained_ckpt.zip", "finetuned_ckpt.zip"} |->
     IF a = "pretrained_ckpt.zip" THEN <<PretrainedFile>> ELSE <<EpsFile, TgFile>>]

FullTree == {PretrainedFile, EpsFile, TgFile}

\* ------------------------------------------------------------------ state
VARIABLES
  ready,        \* <root>/.ready exists
  downloading,  \* <root>/.downloading exists
  age,          \* time.time() - st_mtime of .downloading in ticks, counted up
                \* to StaleAfter (0 while the marker does not exist)
  indexFile,    \* <root>/index.json
  tmpFile,      \* per worker: the NamedTemporaryFile of _write_json_atomic
  zipFile,      \* per artifact: content of <root>/<name>
  files,        \* extracted files below the root
  pc,           \* per worker: position inside ensure_checkpoints
  frame,        \* per worker: the locals of the running call
  result,       \* per worker: what the last finished call returned or raised
  writes,       \* per worker: kinds of path the call has written
  stale,        \* per worker: the call judged the marker stale, "abandoned"
                \* when no worker held the lease, "held" when one did ("" else)
  skip_download,\* the skip_download every caller of this deployment passes
  prev,         \* per worker: the index the call before returned (see Call)
  faults,       \* faults injected so far: io (a failed operation) and kill
  volume,       \* the caller passes a Modal Volume (periogt_modal_app) or None
  vol,          \* per worker, of the running or last call: the volume was
                \* reloaded, a commit was issued, paths were written since
  mode,           \* PERIOGT_DEVICE as given
  torch_present,  \* torch could be imported
  cuda_available, \* torch.cuda.is_available()
  cap,            \* torch.cuda.get_device_capability(0)
  driver_version, \* what detect_driver_version() returns (None as "")
  request,        \* _resolve_device: the normalised mode
  driver_tuple,   \* _resolve_device: the parsed driver version
  device,         \* what _resolve_device returned or raised
  dpc,            \* position inside _resolve_device
  environ,        \* what the doctor command finds: DGLBACKEND, the directories
                  \* that exist, whether periogt_runtime and dgl can be imported
  cfg,            \* the HpcConfig run_doctor is given (device_request, device)
  report,         \* the DoctorReport: warnings and fatals
  exit_status,    \* what the doctor command printed and its exit code
  rpc,            \* position inside the doctor command
  listing,        \* per scan: the order in which the filesystem lists the files
  models,         \* _state["models"]: None, or the finetuned_models loaded so far
  property_index, \* _state["property_index"]: per indexed property, whether
                  \* its checkpoint file exists
  property_model_locks, \* _property_model_locks: per key, the request holding
                  \* the lock (0 when it is free)
  qpc,            \* per request: position inside _ensure_property_model_loaded
  qprop,          \* per request: the property_id it was called with
  qresult,        \* per request: how the last call ended
  loads,          \* per property: calls of load_finetuned_model begun, failed
                  \* and stored
  exc_in,         \* the exception a caller boundary caught
  mapped,         \* what map_exception returned for it
  remapped,       \* what map_exception returned for that result
  epc,            \* position of the caller boundary
  va, vb, vc,     \* three version tuples
  vlt,            \* what _version_lt and the tuple order say of them
  vpc,            \* position of the comparison
  rargs,          \* the keyword arguments resolve_config is called with
  raw,            \* os.environ.get(PERIOGT_CHECKPOINT_DOWNLOAD_STALE_SECONDS)
  marker_delta,   \* time.time() - downloading_marker.stat().st_mtime, in tenths
  stale_after_s,  \* what _parse_positive_float_env returned
  marker_age_s,   \* max(0.0, marker_delta)
  takeover,       \* the outcome of the test of line 267
  spc,            \* position inside lines 257-283
  state,          \* _state of periogt_modal_app: ready, property_index, models
  bootstrap_lock, \* _bootstrap_lock: the thread holding it (0 when it is free)
  tpc,            \* per thread: position inside _ensure_ready
  tloc,           \* per thread: the locals of _ensure_ready
  tout,           \* per thread: how its last request got out of
                  \* ensure_ready_or_503
  volume_root,    \* VOLUME_ROOT: the checkpoint root as the containers see it
  settings,       \* PERIOGT_CHECKPOINT_WAIT_TIMEOUT_SECONDS and
                  \* PERIOGT_CHECKPOINT_DOWNLOAD_STALE_SECONDS as set
  calls           \* requests made so far

fsVars == <<ready, downloading, age, indexFile, tmpFile, zipFile, files>>
wkVars == <<pc, frame, result>>
ghostVars == <<writes, stale, skip_download, prev, faults, volume, vol>>
devVars ==
  <<mode, torch_present, cuda_available, cap, driver_version, request, driver_tuple,
    device, dpc>>
docVars == <<environ, cfg, report, exit_status, rpc>>
errVars == <<exc_in, mapped, remapped, epc>>
verVars == <<va, vb, vc, vlt, vpc>>
pureVars == <<errVars, verVars>>
appVars ==
  <<models, property_index, property_model_locks, qpc, qprop, qresult, loads, pureVars,
    rargs>>
thrVars == <<raw, marker_delta, stale_after_s, marker_age_s, takeover, spc>>
rdyVars == <<state, bootstrap_lock, tpc, tloc, tout, volume_root, settings, calls>>
modalVars == <<thrVars, rdyVars>>
hpcVars == <<devVars, docVars, listing, modalVars, appVars>>
vars == <<fsVars, wkVars, ghostVars, hpcVars>>

\* ------------------------------------------------- _build_property_index
EndsWithPth(name) == name.ext = "pth"
StartsWithBestModel(name) == name.prefix # ""

\* finetuned_root.is_dir(): a directory is on disk when a file lies below it.
IsDir(fs, top) == \E f \in fs : f.top = top

\* candidate.parent.name
ParentName(f) == IF f.sub # "" THEN f.sub ELSE f.top

\* entry.replace(".pth", "").replace("best_model_", "")
FlatPropId(name) ==
  IF name.prefix = "best_model_" THEN name.rest
  ELSE IF name.prefix = "best_model" THEN "best_model"
  ELSE name.rest

\* Meta as it would be if an identifier the table lacks got no label.
MetaKnownOnly(prop_id) ==
  IF prop_id \in DOMAIN PROPERTY_METADATA THEN PROPERTY_METADATA[prop_id]
  ELSE <<"", "">>

\* PROPERTY_METADATA.get(prop_id, (prop_id, ""))
Meta(prop_id) ==
  IF prop_id \in DOMAIN PROPERTY_METADATA THEN PROPERTY_METADATA[prop_id]
  ELSE <<prop_id, "">>

\* IndexEntry as it would be with the path joined to finetuned_root instead
\* of entry_path.
IndexEntryNoDir(f, prop_id) ==
  [checkpoint |-> [f EXCEPT !.sub = ""], label |-> Meta(prop_id)[1],
   units |-> Meta(prop_id)[2]]

\* Lines 149-153, 166-170, 175-179: the entry of a property.
IndexEntry(f, prop_id) ==
  [checkpoint |-> f, label |-> Meta(prop_id)[1], units |-> Meta(prop_id)[2]]

\* Lines 144-153: the recursive scan, used when finetuned_ckpt is no directory.
ScanCandidates(fs, prop_id) ==
  {f \in fs : EndsWithPth(f.name) /\ StartsWithBestModel(f.name)
              /\ ParentName(f) = prop_id}

\* Lines 158-179: one directory per property (the first *.pth listed in it),
\* or a checkpoint file directly below finetuned_ckpt.
LayoutCandidates(fs, prop_id) ==
  {f \in fs : f.top = "finetuned_ckpt" /\ EndsWithPth(f.name)
              /\ \/ f.sub = prop_id /\ f.sub # ""
                 \/ f.sub = "" /\ FlatPropId(f.name) = prop_id}

Candidates(fs, prop_id) ==
  IF IsDir(fs, "finetuned_ckpt") THEN LayoutCandidates(fs, prop_id)
  ELSE ScanCandidates(fs, prop_id)

PropIdsOf(fs) == {ParentName(f) : f \in fs} \cup {FlatPropId(f.name) : f \in fs}

\* Every index the scan can return for the tree fs: os.listdir and rglob give
\* no order, so where several files compete for one identifier any of them may
\* be the one that stays in the dict.
BuildIndexResults(fs) ==
  LET props == {p \in PropIdsOf(fs) : Candidates(fs, p) # {}}
      picks == {g \in [props -> fs] : \A p \in props : g[p] \in Candidates(fs, p)}
  IN  {[p \in props |-> IndexEntry(g[p], p)] : g \in picks}

\* ------------------------------------------------------- json dump / load
\* Every identifier the model can index, in the order sort_keys=True puts them.
KeyOrder ==
  <<"best_model", "cp", "density", "e_amorph", "eat", "eea", "egb", "egc", "eip",
    "eps", "finetuned_ckpt", "nc", "pretrained_ckpt", "tg", "xi">>

\* json.dump(payload, tmp, indent=2, sort_keys=True): the members in key order.
JsonDump(payload) ==
  LET keys == SelectSeq(KeyOrder, LAMBDA k : k \in DOMAIN payload)
  IN  [i \in 1..Len(keys) |-> <<keys[i], payload[keys[i]]>>]

\* json.load(f): the dict of the members read.
JsonLoad(text) ==
  [k \in {text[i][1] : i \in DOMAIN text} |->
     text[CHOOSE i \in DOMAIN text : text[i][1] = k][2]]

NoFile == [exists |-> FALSE, complete |-> FALSE, text |-> <<>>]
PartialFile == [exists |-> TRUE, complete |-> FALSE, text |-> <<>>]
JsonFile(payload) == [exists |-> TRUE, complete |-> TRUE, text |-> JsonDump(payload)]

\* ------------------------------------------------- exceptions and errors
\* The characters of every piece of text the model formats a message from or
\* looks for in one.
Chars(piece) ==
  CASE piece = "Checksum mismatch for " ->
       <<"C", "h", "e", "c", "k", "s", "u", "m", " ", "m", "i", "s", "m", "a", "t",
         "c", "h", " ", "f", "o", "r", " ">>
    [] piece = ": expected " ->
       <<":", " ", "e", "x", "p", "e", "c", "t", "e", "d", " ">>
    [] piece = ", got " ->
       <<",", " ", "g", "o", "t", " ">>
    [] piece = ". File deleted. Re-run setup to retry." ->
       <<".", " ", "F", "i", "l", "e", " ", "d", "e", "l", "e", "t", "e", "d", ".",
         " ", "R", "e", "-", "r", "u", "n", " ", "s", "e", "t", "u", "p", " ", "t",
         "o", " ", "r", "e", "t", "r", "y", ".">>
    [] piece = "pretrained_ckpt.zip" ->
       <<"p", "r", "e", "t", "r", "a", "i", "n", "e", "d", "_", "c", "k", "p", "t",
         ".", "z", "i", "p">>
    [] piece = "finetuned_ckpt.zip" ->
       <<"f", "i", "n", "e", "t", "u", "n", "e", "d", "_", "c", "k", "p", "t", ".",
         "z", "i", "p">>
    [] piece = "7adbcfc4da134692e9a2965270321662" ->
       <<"7", "a", "d", "b", "c", "f", "c", "4", "d", "a", "1", "3", "4", "6", "9",
         "2", "e", "9", "a", "2", "9", "6", "5", "2", "7", "0", "3", "2", "1", "6",
         "6", "2">>
    [] piece = "f285c724142aa2c8919f6a736f6e6093" ->
       <<"f", "2", "8", "5", "c", "7", "2", "4", "1", "4", "2", "a", "a", "2", "c",
         "8", "9", "1", "9", "f", "6", "a", "7", "3", "6", "f", "6", "e", "6", "0",
         "9", "3">>
    [] piece = "0f343b0931126a20f133d67c2b018a3b" ->
       <<"0", "f", "3", "4", "3", "b", "0", "9", "3", "1", "1", "2", "6", "a", "2",
         "0", "f", "1", "3", "3", "d", "6", "7", "c", "2", "b", "0", "1", "8", "a",
         "3", "b">>
    [] piece = "d41d8cd98f00b204e9800998ecf8427e" ->
       <<"d", "4", "1", "d", "8", "c", "d", "9", "8", "f", "0", "0", "b", "2", "0",
         "4", "e", "9", "8", "0", "0", "9", "9", "8", "e", "c", "f", "8", "4", "2",
         "7", "e">>
    [] piece = "Another container is currently downloading checkpoints. This process will retry later." ->
       <<"A", "n", "o", "t", "h", "e", "r", " ", "c", "o", "n", "t", "a", "i", "n",
         "e", "r", " ", "i", "s", " ", "c", "u", "r", "r", "e", "n", "t", "l", "y",
         " ", "d", "o", "w", "n", "l", "o", "a", "d", "i", "n", "g", " ", "c", "h",
         "e", "c", "k", "p", "o", "i", "n", "t", "s", ".", " ", "T", "h", "i", "s",
         " ", "p", "r", "o", "c", "e", "s", "s", " ", "w", "i", "l", "l", " ", "r",
         "e", "t", "r", "y", " ", "l", "a", "t", "e", "r", ".">>
    [] piece = "[Errno 28] No space left on device" ->
       <<"[", "E", "r", "r", "n", "o", " ", "2", "8", "]", " ", "N", "o", " ", "s",
         "p", "a", "c", "e", " ", "l", "e", "f", "t", " ", "o", "n", " ", "d", "e",
         "v", "i", "c", "e">>
    [] piece = "[Errno 2] No such file or directory: " ->
       <<"[", "E", "r", "r", "n", "o", " ", "2", "]", " ", "N", "o", " ", "s", "u",
         "c", "h", " ", "f", "i", "l", "e", " ", "o", "r", " ", "d", "i", "r", "e",
         "c", "t", "o", "r", "y", ":", " ">>
    [] piece = "index.json" ->
       <<"i", "n", "d", "e", "x", ".", "j", "s", "o", "n">>
    [] piece = "File is not a zip file" ->
       <<"F", "i", "l", "e", " ", "i", "s", " ", "n", "o", "t", " ", "a", " ", "z",
         "i", "p", " ", "f", "i", "l", "e">>
    [] piece = "<urlopen error timed out>" ->
       <<"<", "u", "r", "l", "o", "p", "e", "n", " ", "e", "r", "r", "o", "r", " ",
         "t", "i", "m", "e", "d", " ", "o", "u", "t", ">">>
    [] piece = "Expecting value: line 1 column 1 (char 0)" ->
       <<"E", "x", "p", "e", "c", "t", "i", "n", "g", " ", "v", "a", "l", "u", "e",
         ":", " ", "l", "i", "n", "e", " ", "1", " ", "c", "o", "l", "u", "m", "n",
         " ", "1", " ", "(", "c", "h", "a", "r", " ", "0", ")">>
    [] piece = "[Errno 5] Input/output error: " ->
       <<"[", "E", "r", "r", "n", "o", " ", "5", "]", " ", "I", "n", "p", "u", "t",
         "/", "o", "u", "t", "p", "u", "t", " ", "e", "r", "r", "o", "r", ":", " ">>
    [] piece = ".downloading" ->
       <<".", "d", "o", "w", "n", "l", "o", "a", "d", "i", "n", "g">>
    [] piece = "Unsupported property " ->
       <<"U", "n", "s", "u", "p", "p", "o", "r", "t", "e", "d", " ", "p", "r", "o",
         "p", "e", "r", "t", "y", " ">>
    [] piece = "SMILES must include polymer connection points" ->
       <<"S", "M", "I", "L", "E", "S", " ", "m", "u", "s", "t", " ", "i", "n", "c",
         "l", "u", "d", "e", " ", "p", "o", "l", "y", "m", "e", "r", " ", "c", "o",
         "n", "n", "e", "c", "t", "i", "o", "n", " ", "p", "o", "i", "n", "t", "s">>
    [] piece = "/models/" ->
       <<"/", "m", "o", "d", "e", "l", "s", "/">>
    [] piece = "CUDA is " ->
       <<"C", "U", "D", "A", " ", "i", "s", " ">>
    [] piece = "RuntimeError" ->
       <<"R", "u", "n", "t", "i", "m", "e", "E", "r", "r", "o", "r">>
    [] piece = "OSError" ->
       <<"O", "S", "E", "r", "r", "o", "r">>
    [] piece = "URLError" ->
       <<"U", "R", "L", "E", "r", "r", "o", "r">>
    [] piece = "ValueError" ->
       <<"V", "a", "l", "u", "e", "E", "r", "r", "o", "r">>
    [] piece = "Another container is currently downloading checkpoints" ->
       <<"A", "n", "o", "t", "h", "e", "r", " ", "c", "o", "n", "t", "a", "i", "n",
         "e", "r", " ", "i", "s", " ", "c", "u", "r", "r", "e", "n", "t", "l", "y",
         " ", "d", "o", "w", "n", "l", "o", "a", "d", "i", "n", "g", " ", "c", "h",
         "e", "c", "k", "p", "o", "i", "n", "t", "s">>
    [] piece = "Timed out waiting for checkpoint bootstrap in another container." ->
       <<"T", "i", "m", "e", "d", " ", "o", "u", "t", " ", "w", "a", "i", "t", "i",
         "n", "g", " ", "f", "o", "r", " ", "c", "h", "e", "c", "k", "p", "o", "i",
         "n", "t", " ", "b", "o", "o", "t", "s", "t", "r", "a", "p", " ", "i", "n",
         " ", "a", "n", "o", "t", "h", "e", "r", " ", "c", "o", "n", "t", "a", "i",
         "n", "e", "r", ".">>
    [] piece = "checksum mismatch" ->
       <<"c", "h", "e", "c", "k", "s", "u", "m", " ", "m", "i", "s", "m", "a", "t",
         "c", "h">>
    [] piece = "cuda" ->
       <<"c", "u", "d", "a">>
    [] piece = "unavailable" ->
       <<"u", "n", "a", "v", "a", "i", "l", "a", "b", "l", "e">>
    [] piece = "compute capability" ->
       <<"c", "o", "m", "p", "u", "t", "e", " ", "c", "a", "p", "a", "b", "i", "l",
         "i", "t", "y">>
    [] piece = "driver" ->
       <<"d", "r", "i", "v", "e", "r">>
    [] piece = "560.28" ->
       <<"5", "6", "0", ".", "2", "8">>
    [] piece = "checkpoint" ->
       <<"c", "h", "e", "c", "k", "p", "o", "i", "n", "t">>
    [] piece = "missing" ->
       <<"m", "i", "s", "s", "i", "n", "g">>
    [] piece = "model" ->
       <<"m", "o", "d", "e", "l">>
    [] piece = "load" ->
       <<"l", "o", "a", "d">>
    [] piece = "unsupported property" ->
       <<"u", "n", "s", "u", "p", "p", "o", "r", "t", "e", "d", " ", "p", "r", "o",
         "p", "e", "r", "t", "y">>
    [] piece = "smiles" ->
       <<"s", "m", "i", "l", "e", "s">>
    [] piece = "connection point" ->
       <<"c", "o", "n", "n", "e", "c", "t", "i", "o", "n", " ", "p", "o", "i", "n",
         "t">>

\* str(exc): the pieces of the message, concatenated.
RECURSIVE Str(_)
Str(msg) == IF msg = <<>> THEN <<>> ELSE Chars(Head(msg)) \o Str(Tail(msg))

\* str.lower() on one character.
LowerChar(c) ==
  CASE c = "A" -> "a"
    [] c = "B" -> "b"
    [] c = "C" -> "c"
    [] c = "D" -> "d"
    [] c = "E" -> "e"
    [] c = "F" -> "f"
    [] c = "G" -> "g"
    [] c = "H" -> "h"
    [] c = "I" -> "i"
    [] c = "J" -> "j"
    [] c = "K" -> "k"
    [] c = "L" -> "l"
    [] c = "M" -> "m"
    [] c = "N" -> "n"
    [] c = "O" -> "o"
    [] c = "P" -> "p"
    [] c = "Q" -> "q"
    [] c = "R" -> "r"
    [] c = "S" -> "s"
    [] c = "T" -> "t"
    [] c = "U" -> "u"
    [] c = "V" -> "v"
    [] c = "W" -> "w"
    [] c = "X" -> "x"
    [] c = "Y" -> "y"
    [] c = "Z" -> "z"
    [] OTHER -> c

\* str.lower()
Lower(text) == [i \in DOMAIN text |-> LowerChar(text[i])]

\* needle in text
Contains(text, needle) ==
  \E i \in 0..(Len(text) - Len(needle)) :
    \A j \in 1..Len(needle) : text[i + j] = needle[j]

\* An exception: its class, the pieces str() joins to its message, and the
\* code it carries when it is a PerioGTError.
NoExc == [type |-> "", msg |-> <<>>, code |-> ""]

\* Lines 280-283.
InProgressError ==
  [type |-> "RuntimeError", code |-> "",
   msg |-> <<"Another container is currently downloading checkpoints. This process will retry later.">>]

\* Lines 115-118.
ChecksumError(name, expected, actual) ==
  [type |-> "RuntimeError", code |-> "",
   msg |-> <<"Checksum mismatch for ", name, ": expected ", expected, ", got ", actual,
             ". File deleted. Re-run setup to retry.">>]

\* What the operating system, zipfile, urllib and json raise.
OsError ==
  [type |-> "OSError", code |-> "", msg |-> <<"[Errno 28] No space left on device">>]
FileNotFound(what) ==
  [type |-> "FileNotFoundError", code |-> "",
   msg |-> <<"[Errno 2] No such file or directory: ", what>>]
BadZipFile == [type |-> "BadZipFile", code |-> "", msg |-> <<"File is not a zip file">>]
UrlError == [type |-> "URLError", code |-> "", msg |-> <<"<urlopen error timed out>">>]
UnlinkError ==
  [type |-> "OSError", code |-> "",
   msg |-> <<"[Errno 5] Input/output error: ", ".downloading">>]
JsonDecodeError ==
  [type |-> "JSONDecodeError", code |-> "",
   msg |-> <<"Expecting value: line 1 column 1 (char 0)">>]

\* errors.py: PerioGTError(code, message)
PerioGTError(code, message) == [code |-> code, message |-> message]
NoError == PerioGTError("", <<>>)

\* errors.py: _classify_value_error
classify_value_error(message) ==
  LET text == Lower(Str(message))
  IN  IF Contains(text, Chars("unsupported property"))
      THEN PerioGTError("unsupported_property", message)
      ELSE IF Contains(text, Chars("smiles")) \/ Contains(text, Chars("connection point"))
      THEN PerioGTError("validation_error", message)
      ELSE PerioGTError("validation_error", message)

\* errors.py: map_exception
map_exception(exc) ==
  IF exc.type = "PerioGTError" THEN PerioGTError(exc.code, exc.msg)
  ELSE IF exc.type = "ValueError" THEN classify_value_error(exc.msg)
  ELSE LET lower_msg == Lower(Str(exc.msg))
           Has(needle) == Contains(lower_msg, Chars(needle))
       IN  IF Has("checksum mismatch") THEN PerioGTError("checksum_mismatch", exc.msg)
           ELSE IF Has("cuda") /\ Has("unavailable")
           THEN PerioGTError("cuda_unavailable", exc.msg)
           ELSE IF Has("compute capability") THEN PerioGTError("gpu_unsupported", exc.msg)
           ELSE IF Has("driver") /\ Has("560.28")
           THEN PerioGTError("driver_incompatible", exc.msg)
           ELSE IF Has("checkpoint") /\ Has("missing")
           THEN PerioGTError("checkpoint_missing", exc.msg)
           ELSE IF Has("model") /\ Has("load")
           THEN PerioGTError("model_load_failed", exc.msg)
           ELSE PerioGTError("internal_error",
                             IF Str(exc.msg) # <<>> THEN exc.msg ELSE <<exc.type>>)

\* Every exception a call of ensure_checkpoints can end with.
Exceptions ==
  {InProgressError, OsError, BadZipFile, UrlError, JsonDecodeError, UnlinkError}
    \cup {FileNotFound(n) : n \in DOMAIN ARTIFACTS \cup {"index.json"}}
    \cup {ChecksumError(n, ARTIFACTS[n].md5, Md5(n, c)) :
            n \in DOMAIN ARTIFACTS, c \in {"partial", "bad"}}

\* map_exception, tabulated over them.
MappedError == [e \in Exceptions |-> map_exception(e)]

\* ---------------------------------------------------------------- results
\* What a call of ensure_checkpoints gives its caller: the index, or the
\* exception together with the error cli.setup maps it to (cli.py, lines
\* 18-21 and 226-227).
NoResult == [kind |-> "none", index |-> <<>>, exc |-> NoExc, error |-> NoError]
Returned(index) == [kind |-> "index", index |-> index, exc |-> NoExc, error |-> NoError]
Raised(e) == [kind |-> "error", index |-> <<>>, exc |-> e, error |-> MappedError[e]]

\* What _resolve_device gives its caller: the device (with the warning it
\* logged, if any) or the PerioGTError it raised.
NoDevice == [kind |-> "none", type |-> "", warning |-> "", error |-> NoError]
mk_device(kind, warning) ==
  [kind |-> "device", type |-> kind, warning |-> warning, error |-> NoError]
Failed(code, message) ==
  [kind |-> "error", type |-> "", warning |-> "",
   error |-> PerioGTError(code, <<message>>)]

\* ------------------------------------------------------------ control flow
Max(a, b) == IF a >= b THEN a ELSE b

\* The locals of ensure_checkpoints: skip_download; mode "entry" (lines
\* 233-283), "rebuild" (249-253) or "bootstrap" (the try block, 294-317); art,
\* the position in ARTIFACTS.items(); ent, the entries of the open archive
\* already extracted; index; actual_md5 / existing_md5; exc, the exception the
\* except clause has caught.
NewFrame(s) ==
  [skip |-> s, mode |-> "entry", art |-> 1, ent |-> 0, index |-> <<>>,
   actual_md5 |-> "", exc |-> NoExc]

NoFrame == NewFrame(FALSE)

\* The call goes on at label l with locals f.
Continue(w, l, f) ==
  /\ pc' = [pc EXCEPT ![w] = l]
  /\ frame' = [frame EXCEPT ![w] = f]
  /\ UNCHANGED result

Goto(w, l) == Continue(w, l, frame[w])

\* The call returns or raises r to its caller.
Finish(w, r) ==
  /\ pc' = [pc EXCEPT ![w] = "done"]
  /\ frame' = [frame EXCEPT ![w] = NoFrame]
  /\ result' = [result EXCEPT ![w] = r]

\* e is raised: inside the try block the except clause (lines 319-324) runs
\* first, anywhere else e reaches the caller.
Raise(w, e) ==
  IF frame[w].mode = "bootstrap"
  THEN Continue(w, "cleanup", [frame[w] EXCEPT !.exc = e])
  ELSE Finish(w, Raised(e))

\* The call writes a path of the given kind.
Wrote(w, kind) == writes' = [writes EXCEPT ![w] = @ \cup {kind}]

\* What a call has done with the volume so far.
NoVol == [reloaded |-> FALSE, dirty |-> FALSE, committed |-> FALSE]

\* A path below the root was created, written or removed.
Modified(v) == [v EXCEPT !.dirty = TRUE]

\* volume.commit()
Committed(v) == [v EXCEPT !.dirty = FALSE, !.committed = TRUE]

\* The guard "if volume is not None" of lines 240, 251, 276, 291, 314, 322.
Vol(w, v) == vol' = IF volume THEN [vol EXCEPT ![w] = v] ELSE vol

\* No marker is being judged.
NoFloat == [kind |-> "none", tenths |-> 0]

ThrIdle ==
  /\ raw = [set |-> FALSE, text |-> <<>>]
  /\ marker_delta = 0
  /\ stale_after_s = NoFloat
  /\ marker_age_s = NoFloat
  /\ takeover = FALSE
  /\ spc = "idle"

\* No request has reached the Modal app.
RdyIdle ==
  /\ state = <<>>
  /\ bootstrap_lock = 0
  /\ tpc = <<>>
  /\ tloc = <<>>
  /\ tout = <<>>
  /\ volume_root = <<>>
  /\ settings = <<>>
  /\ calls = 0

ModalIdle == ThrIdle /\ RdyIdle

\* No call has been given a volume.
VolIdle == volume = FALSE /\ vol = [w \in Workers |-> NoVol]

FaultBudget == faults.io + faults.kill < MaxFaults

\* An operation of the operating system or the network fails.
Fault == FaultBudget /\ faults' = [faults EXCEPT !.io = @ + 1]

\* Labels between the marker write and the end of the try/except block.
CriticalLabels ==
  {"dv_exists", "dv_md5_cached", "dv_unlink", "dv_fetch", "dv_fetching", "dv_md5",
   "dv_reject", "ex_open", "ex_entry", "ex_unlink", "build", "wj_create", "wj_dump",
   "wj_replace", "write_ready", "ready_write", "unlink_marker", "cleanup"}

InCritical(w) == frame[w].mode = "bootstrap" /\ pc[w] \in CriticalLabels

\* Some worker has written the marker and not left the try block.
LeaseHeld == \E w \in Workers : InCritical(w) \/ pc[w] = "claim_write"

Quiescent == \A w \in Workers : pc[w] \in {"idle", "done"}

\* ------------------------------------------------------------------- Init
\* No device is being resolved.
DevIdle ==
  /\ mode = <<>>
  /\ torch_present = FALSE
  /\ cuda_available = FALSE
  /\ cap = <<0, 0>>
  /\ driver_version = <<>>
  /\ request = <<>>
  /\ driver_tuple = <<>>
  /\ device = NoDevice
  /\ dpc = "off"

\* No doctor command is running and no directory is being listed.
NoEnviron ==
  [dglbackend |-> "", src_dir |-> FALSE, checkpoint_dir |-> FALSE,
   results_dir |-> FALSE, runtime_package |-> FALSE, dgl |-> FALSE]
NoCfg == [device_request |-> <<>>, device |-> NoDevice]
NoReport == [warnings |-> <<>>, fatals |-> <<>>]
NoExit == [verdict |-> "", exit_code |-> -1, error |-> ""]

DocIdle ==
  /\ environ = NoEnviron
  /\ cfg = NoCfg
  /\ report = NoReport
  /\ exit_status = NoExit
  /\ rpc = "off"

NoListing == [w \in Workers |-> <<>>]

\* No caller boundary is mapping an exception.
NoMapped ==
  [code |-> "", message |-> <<>>, details |-> "", same_object |-> FALSE,
   exit_code |-> -1, http_status |-> -1]

ErrIdle ==
  /\ exc_in = NoExc
  /\ mapped = NoMapped
  /\ remapped = NoMapped
  /\ epc = "off"

\* No version is being compared.
NoComparison ==
  [ab |-> FALSE, ba |-> FALSE, bc |-> FALSE, ac |-> FALSE, aa |-> FALSE,
   a_ext |-> FALSE, ext_a |-> FALSE, tuple_ab |-> FALSE]

VerIdle ==
  /\ va = <<>>
  /\ vb = <<>>
  /\ vc = <<>>
  /\ vlt = NoComparison
  /\ vpc = "off"

\* resolve_config is called as the doctor and setup commands call it.
NoArgs ==
  [require_checkpoint_dir |-> FALSE, require_source_dir |-> FALSE,
   create_results_dir |-> TRUE]

PureIdle == ErrIdle /\ VerIdle /\ rargs = NoArgs

\* No request is being served: the state of periogt_modal_app.py at import.
NoModels == [loaded |-> FALSE, finetuned_models |-> {}]

AppIdle ==
  /\ models = NoModels
  /\ property_index = <<>>
  /\ property_model_locks = <<>>
  /\ qpc = <<>>
  /\ qprop = <<>>
  /\ qresult = <<>>
  /\ loads = <<>>
  /\ PureIdle

\* An empty checkpoint root, or one the operator has staged the checkpoints
\* on by hand; no marker, no index, no archive. The deployment calls
\* ensure_checkpoints with skip_download (setup --skip-download) or without.
Init ==
  /\ ready = FALSE
  /\ downloading = FALSE
  /\ age = 0
  /\ indexFile = NoFile
  /\ tmpFile = [w \in Workers |-> NoFile]
  /\ zipFile = [a \in DOMAIN ARTIFACTS |-> "absent"]
  /\ files \in {{}, FullTree}
  /\ pc = [w \in Workers |-> "idle"]
  /\ frame = [w \in Workers |-> NoFrame]
  /\ result = [w \in Workers |-> NoResult]
  /\ writes = [w \in Workers |-> {}]
  /\ stale = [w \in Workers |-> ""]
  /\ skip_download \in BOOLEAN
  /\ VolIdle
  /\ ModalIdle
  /\ prev = [w \in Workers |-> NoResult]
  /\ faults = [io |-> 0, kill |-> 0]
  /\ DevIdle
  /\ DocIdle
  /\ listing = NoListing
  /\ AppIdle

\* --------------------------------------------------- ensure_checkpoints
\* Lines 222-241: a worker calls ensure_checkpoints; a volume is reloaded.
\* prev keeps the index the call before returned, if it returned one and
\* index.json is there as this call begins.
Call(w) ==
  /\ pc[w] \in {"idle", "done"}
  /\ pc' = [pc EXCEPT ![w] = "check_ready"]
  /\ frame' = [frame EXCEPT ![w] = NewFrame(skip_download)]
  /\ result' = [result EXCEPT ![w] = NoResult]
  /\ writes' = [writes EXCEPT ![w] = {}]
  /\ stale' = [stale EXCEPT ![w] = ""]
  /\ prev' = [prev EXCEPT ![w] = IF result[w].kind = "index" /\ indexFile.exists
                                  THEN result[w] ELSE NoResult]
  /\ Vol(w, [NoVol EXCEPT !.reloaded = TRUE])
  /\ UNCHANGED <<fsVars, skip_download, volume, faults, hpcVars>>

\* Line 244: ready_sentinel.exists()
CheckReady(w) ==
  /\ pc[w] = "check_ready"
  /\ Goto(w, IF ready THEN "check_index" ELSE "check_marker")
  /\ UNCHANGED <<fsVars, ghostVars, hpcVars>>

\* CheckIndex as it would be with the test of line 245 inverted.
CheckIndexInverted(w) ==
  /\ pc[w] = "check_index"
  /\ Goto(w, IF indexFile.exists THEN "rebuild" ELSE "read_index")
  /\ UNCHANGED <<fsVars, ghostVars, hpcVars>>

\* Line 245: index_path.exists()
CheckIndex(w) ==
  /\ pc[w] = "check_index"
  /\ Goto(w, IF indexFile.exists THEN "read_index" ELSE "rebuild")
  /\ UNCHANGED <<fsVars, ghostVars, hpcVars>>

\* Lines 246-247: json.load of index.json
ReadIndex(w) ==
  /\ pc[w] = "read_index"
  /\ Finish(w, IF ~indexFile.exists THEN Raised(FileNotFound("index.json"))
               ELSE IF ~indexFile.complete THEN Raised(JsonDecodeError)
               ELSE Returned(JsonLoad(indexFile.text)))
  /\ UNCHANGED <<fsVars, ghostVars, hpcVars>>

\* Rebuild as it would be if the index were persisted without the scan.
RebuildUnscanned(w) ==
  /\ pc[w] = "rebuild"
  /\ Continue(w, "wj_create", [frame[w] EXCEPT !.index = <<>>, !.mode = "rebuild"])
  /\ UNCHANGED <<fsVars, ghostVars, hpcVars>>

\* Line 249: the ready sentinel is there and index.json is not.
Rebuild(w) ==
  /\ pc[w] = "rebuild"
  /\ \E ix \in BuildIndexResults(files) :
       Continue(w, "wj_create", [frame[w] EXCEPT !.index = ix, !.mode = "rebuild"])
  /\ UNCHANGED <<fsVars, ghostVars, hpcVars>>

\* WjCreate as it would be if index.json itself were opened for writing.
WjCreateInPlace(w) ==
  /\ pc[w] = "wj_create"
  /\ indexFile' = PartialFile
  /\ tmpFile' = [tmpFile EXCEPT ![w] = PartialFile]
  /\ Wrote(w, "index")
  /\ Vol(w, Modified(vol[w]))
  /\ Goto(w, "wj_dump")
  /\ UNCHANGED <<ready, downloading, age, zipFile, files, stale, skip_download, volume,
                 prev, faults, hpcVars>>

\* Lines 185-193 of _write_json_atomic: the temporary file is created.
WjCreate(w) ==
  /\ pc[w] = "wj_create"
  /\ \/ /\ tmpFile' = [tmpFile EXCEPT ![w] = PartialFile]
        /\ Wrote(w, "tmp")
        /\ Vol(w, Modified(vol[w]))
        /\ Goto(w, "wj_dump")
        /\ UNCHANGED faults
     \/ /\ Fault
        /\ Raise(w, OsError)
        /\ UNCHANGED <<tmpFile, writes, vol>>
  /\ UNCHANGED <<ready, downloading, age, indexFile, zipFile, files, stale,
                 skip_download, volume, prev, hpcVars>>

\* Lines 194-197: dump, flush, fsync, close.
WjDump(w) ==
  /\ pc[w] = "wj_dump"
  /\ \/ /\ tmpFile' = [tmpFile EXCEPT ![w] = JsonFile(frame[w].index)]
        /\ Goto(w, "wj_replace")
        /\ UNCHANGED faults
     \/ /\ Fault
        /\ Raise(w, OsError)
        /\ UNCHANGED tmpFile
  /\ UNCHANGED <<ready, downloading, age, indexFile, zipFile, files, writes,
                 stale, skip_download, volume, vol, prev, hpcVars>>

\* Line 198: os.replace(tmp_path, path); then lines 251-253 (the commit and
\* the return of the rebuild) or 306.
WjReplace(w) ==
  /\ pc[w] = "wj_replace"
  /\ indexFile' = tmpFile[w]
  /\ tmpFile' = [tmpFile EXCEPT ![w] = NoFile]
  /\ Wrote(w, "index")
  /\ IF frame[w].mode = "rebuild"
     THEN Vol(w, Committed(vol[w])) /\ Finish(w, Returned(frame[w].index))
     ELSE Vol(w, Modified(vol[w])) /\ Goto(w, "write_ready")
  /\ UNCHANGED <<ready, downloading, age, zipFile, files, stale, skip_download, volume,
                 prev, faults, hpcVars>>

\* CheckMarker as it would be if a call that finds no marker went on to the
\* artifacts without writing one.
CheckMarkerNoClaim(w) ==
  /\ pc[w] = "check_marker"
  /\ Goto(w, IF downloading THEN "stat_marker"
             ELSE IF frame[w].skip THEN "build" ELSE "dv_exists")
  /\ UNCHANGED <<fsVars, ghostVars, hpcVars>>

\* Line 256: downloading_marker.exists()
CheckMarker(w) ==
  /\ pc[w] = "check_marker"
  /\ Goto(w, IF downloading THEN "stat_marker" ELSE "claim")
  /\ UNCHANGED <<fsVars, ghostVars, hpcVars>>

\* Lines 262-265: the age of the marker; 0 when stat finds no file.
MarkerAge == IF downloading THEN Max(0, age) ELSE 0

\* Line 267.
IsStale(age_s) == age_s >= StaleAfter

\* StatMarker as it would be if the marker were removed before the
\* in-progress error is raised.
StatMarkerUnlinks(w) ==
  /\ pc[w] = "stat_marker"
  /\ IF IsStale(MarkerAge)
     THEN /\ stale' = [stale EXCEPT ![w] = IF LeaseHeld THEN "held" ELSE "abandoned"]
          /\ Goto(w, "unlink_stale")
          /\ UNCHANGED <<downloading, age>>
     ELSE /\ Finish(w, Raised(InProgressError))
          /\ downloading' = FALSE
          /\ age' = 0
          /\ UNCHANGED stale
  /\ UNCHANGED <<ready, indexFile, tmpFile, zipFile, files, writes,
                 skip_download, volume, vol, prev, faults, hpcVars>>

\* Lines 257-283 up to the unlink: take over a stale marker, or raise.
StatMarker(w) ==
  /\ pc[w] = "stat_marker"
  /\ IF IsStale(MarkerAge)
     THEN /\ stale' = [stale EXCEPT ![w] = IF LeaseHeld THEN "held" ELSE "abandoned"]
          /\ Goto(w, "unlink_stale")
     ELSE /\ Finish(w, Raised(InProgressError))
          /\ UNCHANGED stale
  /\ UNCHANGED <<fsVars, writes, skip_download, volume, vol, prev, faults, hpcVars>>

\* Lines 275-278: downloading_marker.unlink(missing_ok=True), then the commit
\* and the reload of the volume.
UnlinkStale(w) ==
  /\ pc[w] = "unlink_stale"
  /\ downloading' = FALSE
  /\ age' = 0
  /\ IF downloading THEN Wrote(w, "marker") ELSE UNCHANGED writes
  /\ Vol(w, Committed(vol[w]))
  /\ Goto(w, "claim")
  /\ UNCHANGED <<ready, indexFile, tmpFile, zipFile, files, stale,
                 skip_download, volume, prev, faults, hpcVars>>

\* Lines 286-289: downloading_marker.open("w") creates or truncates the marker.
ClaimLease(w) ==
  /\ pc[w] = "claim"
  /\ \/ /\ downloading' = TRUE
        /\ age' = 0
        /\ Wrote(w, "marker")
        /\ Vol(w, Modified(vol[w]))
        /\ Goto(w, "claim_write")
        /\ UNCHANGED faults
     \/ /\ Fault
        /\ Finish(w, Raised(OsError))
        /\ UNCHANGED <<downloading, age, writes, vol>>
  /\ UNCHANGED <<ready, indexFile, tmpFile, zipFile, files, stale,
                 skip_download, volume, prev, hpcVars>>

\* MarkerWrite as it would be if skip_download were not looked at (line 295).
MarkerWriteDownloads(w) ==
  /\ pc[w] = "claim_write"
  /\ \/ /\ age' = 0
        /\ Continue(w, "dv_exists", [frame[w] EXCEPT !.mode = "bootstrap"])
        /\ Vol(w, Committed(vol[w]))
        /\ UNCHANGED faults
     \/ /\ Fault
        /\ Finish(w, Raised(OsError))
        /\ UNCHANGED <<age, vol>>
  /\ UNCHANGED <<ready, downloading, indexFile, tmpFile, zipFile, files, writes,
                 stale, skip_download, volume, prev, hpcVars>>

\* Lines 290-294: f.write("downloading") and the close, the commit of the
\* marker; the try block begins.
\* A failure here is raised outside the try block: no except clause runs.
MarkerWrite(w) ==
  /\ pc[w] = "claim_write"
  /\ \/ /\ age' = 0
        /\ Continue(w, IF frame[w].skip THEN "build" ELSE "dv_exists",
                    [frame[w] EXCEPT !.mode = "bootstrap"])
        /\ Vol(w, Committed(vol[w]))
        /\ UNCHANGED faults
     \/ /\ Fault
        /\ Finish(w, Raised(OsError))
        /\ UNCHANGED <<age, vol>>
  /\ UNCHANGED <<ready, downloading, indexFile, tmpFile, zipFile, files, writes,
                 stale, skip_download, volume, prev, hpcVars>>

\* ------------------------------------- _download_and_verify, _extract_zip
Artifact(w) == ArtifactNames[frame[w].art]

\* zip_path.unlink(missing_ok=True)
UnlinkZip(w) ==
  /\ zipFile' = [zipFile EXCEPT ![Artifact(w)] = "absent"]
  /\ IF zipFile[Artifact(w)] # "absent"
     THEN Wrote(w, "archive") /\ Vol(w, Modified(vol[w]))
     ELSE UNCHANGED <<writes, vol>>

\* Line 95: zip_path.exists()
DvExists(w) ==
  /\ pc[w] = "dv_exists"
  /\ Goto(w, IF zipFile[Artifact(w)] # "absent" THEN "dv_md5_cached" ELSE "dv_fetch")
  /\ UNCHANGED <<fsVars, ghostVars, hpcVars>>

\* DvMd5Cached as it would be if a file already there were never trusted.
DvMd5CachedRefetch(w) ==
  /\ pc[w] = "dv_md5_cached"
  /\ LET name == Artifact(w)
         existing_md5 == Md5(name, zipFile[name])
     IN  IF zipFile[name] = "absent" THEN Raise(w, FileNotFound(name))
         ELSE Continue(w, "dv_unlink", [frame[w] EXCEPT !.actual_md5 = existing_md5])
  /\ UNCHANGED <<fsVars, ghostVars, hpcVars>>

\* Lines 96-105: the digest of the file already there.
DvMd5Cached(w) ==
  /\ pc[w] = "dv_md5_cached"
  /\ LET name == Artifact(w)
         existing_md5 == Md5(name, zipFile[name])
     IN  IF zipFile[name] = "absent" THEN Raise(w, FileNotFound(name))
         ELSE Continue(w, IF existing_md5 = ARTIFACTS[name].md5 THEN "ex_open"
                          ELSE "dv_unlink",
                       [frame[w] EXCEPT !.actual_md5 = existing_md5])
  /\ UNCHANGED <<fsVars, ghostVars, hpcVars>>

\* Line 106: the mismatching cached file is removed.
DvUnlink(w) ==
  /\ pc[w] = "dv_unlink"
  /\ UnlinkZip(w)
  /\ Goto(w, "dv_fetch")
  /\ UNCHANGED <<ready, downloading, age, indexFile, tmpFile, files, stale,
                 skip_download, volume, prev, faults, hpcVars>>

\* Line 110, urlretrieve opens the URL and the file: the file is created or
\* truncated.
DvFetch(w) ==
  /\ pc[w] = "dv_fetch"
  /\ \/ /\ zipFile' = [zipFile EXCEPT ![Artifact(w)] = "partial"]
        /\ Wrote(w, "archive")
        /\ Vol(w, Modified(vol[w]))
        /\ Goto(w, "dv_fetching")
        /\ UNCHANGED faults
     \/ /\ Fault
        /\ Raise(w, UrlError)
        /\ UNCHANGED <<zipFile, writes, vol>>
  /\ UNCHANGED <<ready, downloading, age, indexFile, tmpFile, files, stale,
                 skip_download, volume, prev, hpcVars>>

\* Line 110, urlretrieve copies the last block. The bytes are the published
\* ones or, by a fault of the transfer, others; a file another worker unlinked
\* meanwhile stays unlinked.
DvFetching(w) ==
  /\ pc[w] = "dv_fetching"
  /\ \/ /\ zipFile' = [zipFile EXCEPT ![Artifact(w)] =
                         IF @ = "absent" THEN "absent" ELSE "good"]
        /\ Goto(w, "dv_md5")
        /\ UNCHANGED faults
     \/ /\ Fault
        /\ zipFile' = [zipFile EXCEPT ![Artifact(w)] =
                         IF @ = "absent" THEN "absent" ELSE "bad"]
        /\ Goto(w, "dv_md5")
     \/ /\ Fault
        /\ Raise(w, UrlError)
        /\ UNCHANGED zipFile
  /\ Vol(w, Modified(vol[w]))
  /\ UNCHANGED <<ready, downloading, age, indexFile, tmpFile, files, writes,
                 stale, skip_download, volume, prev, hpcVars>>

\* Lines 112-113: the digest of the downloaded file.
DvMd5(w) ==
  /\ pc[w] = "dv_md5"
  /\ LET name == Artifact(w)
         md5 == Md5(name, zipFile[name])
     IN  IF zipFile[name] = "absent" THEN Raise(w, FileNotFound(name))
         ELSE Continue(w, IF md5 # ARTIFACTS[name].md5 THEN "dv_reject" ELSE "ex_open",
                       [frame[w] EXCEPT !.actual_md5 = md5])
  /\ UNCHANGED <<fsVars, ghostVars, hpcVars>>

\* DvReject as it would be without the unlink of line 114.
DvRejectKeeps(w) ==
  /\ pc[w] = "dv_reject"
  /\ Raise(w, ChecksumError(Artifact(w), ARTIFACTS[Artifact(w)].md5,
                            frame[w].actual_md5))
  /\ UNCHANGED <<fsVars, ghostVars, hpcVars>>

\* Lines 114-118: the mismatching download is removed and the error raised.
DvReject(w) ==
  /\ pc[w] = "dv_reject"
  /\ UnlinkZip(w)
  /\ Raise(w, ChecksumError(Artifact(w), ARTIFACTS[Artifact(w)].md5,
                            frame[w].actual_md5))
  /\ UNCHANGED <<ready, downloading, age, indexFile, tmpFile, files, stale,
                 skip_download, volume, prev, faults, hpcVars>>

\* Line 128: zipfile.ZipFile(zip_path, "r")
ExOpen(w) ==
  /\ pc[w] = "ex_open"
  /\ LET content == zipFile[Artifact(w)]
     IN  IF content = "absent" THEN Raise(w, FileNotFound(Artifact(w)))
         ELSE IF content # "good" THEN Raise(w, BadZipFile)
         ELSE Continue(w, "ex_entry", [frame[w] EXCEPT !.ent = 0])
  /\ UNCHANGED <<fsVars, ghostVars, hpcVars>>

\* Line 129: extractall writes the next entry of the archive.
ExEntry(w) ==
  /\ pc[w] = "ex_entry"
  /\ LET entries == ArchiveEntries[Artifact(w)]
         n == frame[w].ent + 1
     IN  \/ /\ files' = files \cup {entries[n]}
            /\ Wrote(w, "extracted")
            /\ Vol(w, Modified(vol[w]))
            /\ Continue(w, IF n = Len(entries) THEN "ex_unlink" ELSE "ex_entry",
                        [frame[w] EXCEPT !.ent = n])
            /\ UNCHANGED faults
         \/ /\ Fault
            /\ Raise(w, OsError)
            /\ UNCHANGED <<files, writes, vol>>
  /\ UNCHANGED <<ready, downloading, age, indexFile, tmpFile, zipFile, stale,
                 skip_download, volume, prev, hpcVars>>

\* Line 131: the archive is removed; lines 296-298: the next artifact.
ExUnlink(w) ==
  /\ pc[w] = "ex_unlink"
  /\ UnlinkZip(w)
  /\ IF frame[w].art < Len(ArtifactNames)
     THEN Continue(w, "dv_exists", [frame[w] EXCEPT !.art = @ + 1, !.ent = 0])
     ELSE Continue(w, "build", [frame[w] EXCEPT !.ent = 0])
  /\ UNCHANGED <<ready, downloading, age, indexFile, tmpFile, files, stale,
                 skip_download, volume, prev, faults, hpcVars>>

\* --------------------------------------------- the end of the try block
\* Build as it would be if the index were built and not persisted.
BuildUnpersisted(w) ==
  /\ pc[w] = "build"
  /\ \/ /\ \E ix \in BuildIndexResults(files) :
             Continue(w, "write_ready", [frame[w] EXCEPT !.index = ix])
        /\ UNCHANGED faults
     \/ /\ Fault
        /\ Raise(w, OsError)
  /\ UNCHANGED <<fsVars, writes, stale, skip_download, volume, vol, prev, hpcVars>>

\* Line 303: index = _build_property_index(root)
Build(w) ==
  /\ pc[w] = "build"
  /\ \/ /\ \E ix \in BuildIndexResults(files) :
             Continue(w, "wj_create", [frame[w] EXCEPT !.index = ix])
        /\ UNCHANGED faults
     \/ /\ Fault
        /\ Raise(w, OsError)
  /\ UNCHANGED <<fsVars, writes, stale, skip_download, volume, vol, prev, hpcVars>>

\* Line 307: ready_sentinel.open("w") creates or truncates the sentinel.
WriteReady(w) ==
  /\ pc[w] = "write_ready"
  /\ \/ /\ ready' = TRUE
        /\ Wrote(w, "ready")
        /\ Vol(w, Modified(vol[w]))
        /\ Goto(w, "ready_write")
        /\ UNCHANGED faults
     \/ /\ Fault
        /\ Raise(w, OsError)
        /\ UNCHANGED <<ready, writes, vol>>
  /\ UNCHANGED <<downloading, age, indexFile, tmpFile, zipFile, files, stale,
                 skip_download, volume, prev, hpcVars>>

\* Line 308: f.write("ready") and the close.
ReadyWrite(w) ==
  /\ pc[w] = "ready_write"
  /\ \/ /\ Goto(w, "unlink_marker")
        /\ UNCHANGED faults
     \/ /\ Fault
        /\ Raise(w, OsError)
  /\ UNCHANGED <<fsVars, writes, stale, skip_download, volume, vol, prev, hpcVars>>

\* downloading_marker.unlink(missing_ok=True)
UnlinkMarkerFile(w) ==
  /\ downloading' = FALSE
  /\ age' = 0
  /\ IF downloading THEN Wrote(w, "marker") ELSE UNCHANGED writes

\* Lines 311-317: the marker is removed, the volume committed and the index
\* returned.
UnlinkMarker(w) ==
  /\ pc[w] = "unlink_marker"
  /\ UnlinkMarkerFile(w)
  /\ Vol(w, Committed(vol[w]))
  /\ Finish(w, Returned(frame[w].index))
  /\ UNCHANGED <<ready, indexFile, tmpFile, zipFile, files, stale,
                 skip_download, volume, prev, faults, hpcVars>>

\* Lines 319-324: except Exception: the marker is removed, the volume
\* committed and the error re-raised; when the unlink itself raises
\* (missing_ok covers the missing file only), its OSError leaves the except
\* clause instead, before the commit.
Cleanup(w) ==
  /\ pc[w] = "cleanup"
  /\ \/ /\ UnlinkMarkerFile(w)
        /\ Vol(w, Committed(vol[w]))
        /\ Finish(w, Raised(frame[w].exc))
        /\ UNCHANGED faults
     \/ /\ Fault
        /\ Finish(w, Raised(UnlinkError))
        /\ UNCHANGED <<downloading, age, writes, vol>>
  /\ UNCHANGED <<ready, indexFile, tmpFile, zipFile, files, stale,
                 skip_download, volume, prev, hpcVars>>

\* ------------------------------------------------------------ environment
\* The process of a worker is killed after its call has written something:
\* no except clause runs, the files it wrote stay as they are, and a new
\* process takes its place. Its temporary file stays too, under a name of its
\* own that no later call opens; it is of no further account. (A process
\* killed before its first write leaves no trace.)
Crash(w) ==
  /\ pc[w] \notin {"idle", "done"}
  /\ writes[w] # {}
  /\ FaultBudget
  /\ faults' = [faults EXCEPT !.kill = @ + 1]
  /\ tmpFile' = [tmpFile EXCEPT ![w] = NoFile]
  /\ pc' = [pc EXCEPT ![w] = "idle"]
  /\ frame' = [frame EXCEPT ![w] = NoFrame]
  /\ result' = [result EXCEPT ![w] = NoResult]
  /\ writes' = [writes EXCEPT ![w] = {}]
  /\ stale' = [stale EXCEPT ![w] = ""]
  /\ prev' = [prev EXCEPT ![w] = NoResult]
  /\ Vol(w, NoVol)
  /\ UNCHANGED <<ready, downloading, age, indexFile, zipFile, files,
                 skip_download, volume, hpcVars>>

\* A clock tick: the marker grows older. Only age >= StaleAfter is ever read
\* off the age, so it is counted no further.
Tick ==
  /\ downloading
  /\ age < StaleAfter
  /\ age' = age + 1
  /\ UNCHANGED <<ready, downloading, indexFile, tmpFile, zipFile, files, wkVars,
                 ghostVars, hpcVars>>

\* index.json is lost while no call is running (the case lines 248-253 are
\* written for).
LoseIndex ==
  /\ Quiescent
  /\ ready
  /\ indexFile.exists
  /\ indexFile' = NoFile
  /\ UNCHANGED <<ready, downloading, age, tmpFile, zipFile, files, wkVars,
                 ghostVars, hpcVars>>

WorkerStep(w) ==
  \/ CheckReady(w) \/ CheckIndex(w) \/ ReadIndex(w) \/ Rebuild(w)
  \/ WjCreate(w) \/ WjDump(w) \/ WjReplace(w)
  \/ CheckMarker(w) \/ StatMarker(w) \/ UnlinkStale(w) \/ ClaimLease(w)
  \/ MarkerWrite(w)
  \/ DvExists(w) \/ DvMd5Cached(w) \/ DvUnlink(w) \/ DvFetch(w) \/ DvFetching(w)
  \/ DvMd5(w) \/ DvReject(w) \/ ExOpen(w) \/ ExEntry(w) \/ ExUnlink(w)
  \/ Build(w) \/ WriteReady(w) \/ ReadyWrite(w) \/ UnlinkMarker(w) \/ Cleanup(w)

Next ==
  \/ \E w \in Workers : Call(w)
  \/ \E w \in Workers : WorkerStep(w)
  \/ \E w \in Workers : Crash(w)
  \/ Tick
  \/ LoseIndex

Spec == Init /\ [][Next]_vars

\* The Modal deployment: _ensure_ready calls ensure_checkpoints(volume), with
\* the volume mounted at the root and skip_download left at its default.
InitVol ==
  /\ ready = FALSE
  /\ downloading = FALSE
  /\ age = 0
  /\ indexFile = NoFile
  /\ tmpFile = [w \in Workers |-> NoFile]
  /\ zipFile = [a \in DOMAIN ARTIFACTS |-> "absent"]
  /\ files \in {{}, FullTree}
  /\ pc = [w \in Workers |-> "idle"]
  /\ frame = [w \in Workers |-> NoFrame]
  /\ result = [w \in Workers |-> NoResult]
  /\ writes = [w \in Workers |-> {}]
  /\ stale = [w \in Workers |-> ""]
  /\ skip_download = FALSE
  /\ prev = [w \in Workers |-> NoResult]
  /\ faults = [io |-> 0, kill |-> 0]
  /\ volume = TRUE
  /\ vol = [w \in Workers |-> NoVol]
  /\ ModalIdle
  /\ DevIdle
  /\ DocIdle
  /\ listing = NoListing
  /\ AppIdle

SpecVol == InitVol /\ [][Next]_vars

\* ------------------------------------------------- config._resolve_device
MIN_DRIVER_VERSION == <<560, 28>>
MIN_COMPUTE_CAPABILITY == <<7, 0>>

IsDigit(c) == c \in {"0", "1", "2", "3", "4", "5", "6", "7", "8", "9"}

DigitValue(c) ==
  CASE c = "0" -> 0 [] c = "1" -> 1 [] c = "2" -> 2 [] c = "3" -> 3 [] c = "4" -> 4
    [] c = "5" -> 5 [] c = "6" -> 6 [] c = "7" -> 7 [] c = "8" -> 8 [] c = "9" -> 9

\* int(digits)
RECURSIVE ToInt(_)
ToInt(digits) ==
  IF digits = <<>> THEN 0
  ELSE 10 * ToInt(SubSeq(digits, 1, Len(digits) - 1)) + DigitValue(digits[Len(digits)])

\* str.strip()
RECURSIVE Strip(_)
Strip(text) ==
  IF text = <<>> THEN text
  ELSE IF Head(text) = " " THEN Strip(Tail(text))
  ELSE IF text[Len(text)] = " " THEN Strip(SubSeq(text, 1, Len(text) - 1))
  ELSE text

\* str.split("."): the pieces between the dots.
RECURSIVE Split(_)
Split(text) ==
  IF \A i \in DOMAIN text : text[i] # "." THEN <<text>>
  ELSE LET dot == CHOOSE i \in DOMAIN text :
                    text[i] = "." /\ \A j \in 1..(i - 1) : text[j] # "."
       IN  <<SubSeq(text, 1, dot - 1)>> \o Split(SubSeq(text, dot + 1, Len(text)))

\* Lines 64-69 of _parse_version_tuple: the loop over the tokens.
RECURSIVE ParseTokens(_)
ParseTokens(tokens) ==
  IF tokens = <<>> THEN <<>>
  ELSE LET digits == SelectSeq(Head(tokens), IsDigit)
       IN  IF digits = <<>> THEN <<>>
           ELSE <<ToInt(digits)>> \o ParseTokens(Tail(tokens))

\* _parse_version_tuple
parse_version_tuple(value) ==
  IF value = <<>> THEN <<>> ELSE ParseTokens(Split(Strip(value)))

\* left < right on tuples of numbers, as Python orders them.
RECURSIVE TupleLt(_, _)
TupleLt(left, right) ==
  IF right = <<>> THEN FALSE
  ELSE IF left = <<>> THEN TRUE
  ELSE IF Head(left) # Head(right) THEN Head(left) < Head(right)
  ELSE TupleLt(Tail(left), Tail(right))

\* left + (0,) * (max_len - len(left))
Pad(t, n) == [i \in 1..n |-> IF i <= Len(t) THEN t[i] ELSE 0]

\* _version_lt as it would be with <= for <.
version_le(left, right) ==
  LET max_len == Max(Len(left), Len(right))
  IN  Pad(left, max_len) = Pad(right, max_len)
        \/ TupleLt(Pad(left, max_len), Pad(right, max_len))

\* _version_lt without the padding of lines 74-76.
version_lt_unpadded(left, right) == TupleLt(left, right)

\* _version_lt
version_lt(left, right) ==
  LET max_len == Max(Len(left), Len(right))
  IN  TupleLt(Pad(left, max_len), Pad(right, max_len))

auto == <<"a", "u", "t", "o">>
cpu == <<"c", "p", "u">>
cuda == <<"c", "u", "d", "a">>

\* Decide as it would be if a driver version that was not detected or could
\* not be parsed were compared with the minimum like any other.
DecideUnknownDriverFails(req, torch, available, capability, driver) ==
  IF req = cpu THEN mk_device("cpu", "")
  ELSE IF req = cuda
  THEN IF ~torch
       THEN Failed("cuda_unavailable", "PyTorch is not installed in this environment.")
       ELSE IF ~available
       THEN Failed("cuda_unavailable",
                   "PERIOGT_DEVICE=cuda requested but CUDA is unavailable.")
       ELSE IF TupleLt(capability, MIN_COMPUTE_CAPABILITY)
       THEN Failed("gpu_unsupported",
                   "Detected GPU does not meet minimum compute capability 7.0.")
       ELSE IF version_lt(driver, MIN_DRIVER_VERSION)
       THEN Failed("driver_incompatible", "NVIDIA driver is too old for CUDA 12.6.")
       ELSE mk_device("cuda", "")
  ELSE IF ~available
  THEN mk_device("cpu", "CUDA unavailable; falling back to CPU.")
  ELSE IF TupleLt(capability, MIN_COMPUTE_CAPABILITY)
  THEN mk_device("cpu", "GPU has compute capability < 7.0; falling back to CPU.")
  ELSE IF version_lt(driver, MIN_DRIVER_VERSION)
  THEN mk_device("cpu", "Driver is older than minimum 560.28; falling back to CPU.")
  ELSE mk_device("cuda", "")

\* Lines 209-268: the decision, once the request is valid.
Decide(req, torch, available, capability, driver) ==
  IF req = cpu THEN mk_device("cpu", "")
  ELSE IF req = cuda
  THEN IF ~torch
       THEN Failed("cuda_unavailable", "PyTorch is not installed in this environment.")
       ELSE IF ~available
       THEN Failed("cuda_unavailable",
                   "PERIOGT_DEVICE=cuda requested but CUDA is unavailable.")
       ELSE IF TupleLt(capability, MIN_COMPUTE_CAPABILITY)
       THEN Failed("gpu_unsupported",
                   "Detected GPU does not meet minimum compute capability 7.0.")
       ELSE IF driver # <<>> /\ version_lt(driver, MIN_DRIVER_VERSION)
       THEN Failed("driver_incompatible", "NVIDIA driver is too old for CUDA 12.6.")
       ELSE mk_device("cuda", "")
  ELSE IF ~available
  THEN mk_device("cpu", "CUDA unavailable; falling back to CPU.")
  ELSE IF TupleLt(capability, MIN_COMPUTE_CAPABILITY)
  THEN mk_device("cpu", "GPU has compute capability < 7.0; falling back to CPU.")
  ELSE IF driver # <<>> /\ version_lt(driver, MIN_DRIVER_VERSION)
  THEN mk_device("cpu", "Driver is older than minimum 560.28; falling back to CPU.")
  ELSE mk_device("cuda", "")

\* The values of PERIOGT_DEVICE tried: "", auto, cpu, cuda, " cpu ", CUDA,
\* Auto, gpu, cuda:0, mps.
Modes ==
  {<<>>, auto, cpu, cuda, <<" ", "c", "p", "u", " ">>, <<"C", "U", "D", "A">>,
   <<"A", "u", "t", "o">>, <<"g", "p", "u">>, <<"c", "u", "d", "a", ":", "0">>,
   <<"m", "p", "s">>}

\* The driver versions tried: none detected, N/A, 560.28, 560.28.03,
\* 570.86.15, 560.27, 550.10, 560.
NoDriver == {<<>>, <<"N", "/", "A">>}
NewDrivers ==
  {<<"5", "6", "0", ".", "2", "8">>,
   <<"5", "6", "0", ".", "2", "8", ".", "0", "3">>,
   <<"5", "7", "0", ".", "8", "6", ".", "1", "5">>}
OldDrivers ==
  {<<"5", "6", "0", ".", "2", "7">>, <<"5", "5", "0", ".", "1", "0">>, <<"5", "6", "0">>}

\* The compute capabilities tried.
OldCapabilities == {<<6, 0>>, <<6, 1>>}
NewCapabilities == {<<7, 0>>, <<7, 5>>, <<8, 0>>}

\* A machine as the probes find it, no checkpoint root in use.
InitDev ==
  /\ ready = FALSE
  /\ downloading = FALSE
  /\ age = 0
  /\ indexFile = NoFile
  /\ tmpFile = [w \in Workers |-> NoFile]
  /\ zipFile = [a \in DOMAIN ARTIFACTS |-> "absent"]
  /\ files = {}
  /\ pc = [w \in Workers |-> "idle"]
  /\ frame = [w \in Workers |-> NoFrame]
  /\ result = [w \in Workers |-> NoResult]
  /\ writes = [w \in Workers |-> {}]
  /\ stale = [w \in Workers |-> ""]
  /\ skip_download = FALSE
  /\ VolIdle
  /\ ModalIdle
  /\ prev = [w \in Workers |-> NoResult]
  /\ faults = [io |-> 0, kill |-> 0]
  /\ mode \in Modes
  /\ torch_present \in BOOLEAN
  /\ cuda_available \in (IF torch_present THEN BOOLEAN ELSE {FALSE})
  /\ cap \in (IF cuda_available THEN OldCapabilities \cup NewCapabilities ELSE {<<0, 0>>})
  /\ driver_version \in NoDriver \cup NewDrivers \cup OldDrivers
  /\ request = <<>>
  /\ driver_tuple = <<>>
  /\ device = NoDevice
  /\ dpc = "start"
  /\ DocIdle
  /\ listing = NoListing
  /\ AppIdle

\* Normalize as it would be if a request it does not know were taken as auto.
NormalizeLenient ==
  /\ dpc = "start"
  /\ request' = (IF Strip(Lower(IF mode = <<>> THEN auto ELSE mode)) \in {cpu, cuda}
                 THEN Strip(Lower(mode)) ELSE auto)
  /\ dpc' = "detect"
  /\ UNCHANGED <<fsVars, wkVars, ghostVars, docVars, listing, modalVars, appVars, mode, torch_present,
                 cuda_available, cap, driver_version, driver_tuple, device>>

\* Lines 198-204: request = (mode or "auto").lower().strip() and its check.
Normalize ==
  /\ dpc = "start"
  /\ request' = Strip(Lower(IF mode = <<>> THEN auto ELSE mode))
  /\ IF request' \in {auto, cpu, cuda}
     THEN dpc' = "detect" /\ UNCHANGED device
     ELSE /\ dpc' = "done"
          /\ device' = Failed("validation_error",
                              "PERIOGT_DEVICE must be one of: auto, cpu, cuda.")
  /\ UNCHANGED <<fsVars, wkVars, ghostVars, docVars, listing, modalVars, appVars, mode, torch_present, cuda_available,
                 cap, driver_version, driver_tuple>>

\* Lines 206-207: gpu = detect_gpu_details(); the driver version is parsed.
Detect ==
  /\ dpc = "detect"
  /\ driver_tuple' = parse_version_tuple(driver_version)
  /\ dpc' = "decide"
  /\ UNCHANGED <<fsVars, wkVars, ghostVars, docVars, listing, modalVars, appVars, mode, torch_present, cuda_available,
                 cap, driver_version, request, device>>

\* Lines 209-268.
Resolve ==
  /\ dpc = "decide"
  /\ device' = Decide(request, torch_present, cuda_available, cap, driver_tuple)
  /\ dpc' = "done"
  /\ UNCHANGED <<fsVars, wkVars, ghostVars, docVars, listing, modalVars, appVars, mode, torch_present, cuda_available,
                 cap, driver_version, request, driver_tuple>>

NextDev == Normalize \/ Detect \/ Resolve

SpecDev == InitDev /\ [][NextDev]_vars

\* ------------------------- _build_property_index, in the order of a listing
MaxTree == 3

\* index[key] = value
Put(index, key, value) ==
  [k \in DOMAIN index \cup {key} |-> IF k = key THEN value ELSE index[k]]

\* Lines 144-153: root.rglob("*.pth") yields the files in the order entries;
\* a later candidate of the same parent directory name replaces an earlier.
RECURSIVE ScanListing(_, _, _)
ScanListing(entries, i, index) ==
  IF i > Len(entries) THEN index
  ELSE LET candidate == entries[i]
           prop_id == ParentName(candidate)
       IN  ScanListing(entries, i + 1,
                       IF EndsWithPth(candidate.name)
                            /\ StartsWithBestModel(candidate.name)
                       THEN Put(index, prop_id, IndexEntry(candidate, prop_id))
                       ELSE index)

\* Lines 161-164: the first *.pth os.listdir(entry_path) yields (0 if none).
FirstPth(entries, entry) ==
  LET found == {j \in 1..Len(entries) :
                  /\ entries[j].top = "finetuned_ckpt"
                  /\ entries[j].sub = entry
                  /\ EndsWithPth(entries[j].name)}
  IN  IF found = {} THEN 0 ELSE CHOOSE j \in found : \A k \in found : j <= k

\* Lines 158-179: os.listdir(finetuned_root) yields a directory where the
\* first of its files stands in entries, and a file where it stands.
RECURSIVE WalkListing(_, _, _)
WalkListing(entries, i, index) ==
  IF i > Len(entries) THEN index
  ELSE LET f == entries[i]
           seen == \E j \in 1..(i - 1) :
                     entries[j].top = "finetuned_ckpt" /\ entries[j].sub = f.sub
           first == FirstPth(entries, f.sub)
       IN  WalkListing(entries, i + 1,
             IF f.top # "finetuned_ckpt" THEN index
             ELSE IF f.sub # ""
             THEN IF seen \/ first = 0 THEN index
                  ELSE Put(index, f.sub, IndexEntry(entries[first], f.sub))
             ELSE IF EndsWithPth(f.name)
             THEN Put(index, FlatPropId(f.name), IndexEntry(f, FlatPropId(f.name)))
             ELSE index)

\* Lines 135-181: _build_property_index on a root whose files the filesystem
\* lists in the order entries.
build_property_index(entries) ==
  IF ~IsDir({entries[i] : i \in 1..Len(entries)}, "finetuned_ckpt")
  THEN ScanListing(entries, 1, <<>>)
  ELSE WalkListing(entries, 1, <<>>)

\* The files the trees are made of: two checkpoints in the directory of one
\* property, two files below finetuned_ckpt that name the same property, and
\* checkpoints in directories of the same name elsewhere below the root,
\* and checkpoints of a property (visc) PROPERTY_METADATA does not list.
IdxFiles ==
  {EpsFile, MkFile("finetuned_ckpt", "eps", "", "last", "pth"),
   MkFile("finetuned_ckpt", "", "best_model_", "tg", "pth"),
   MkFile("finetuned_ckpt", "", "", "tg", "pth"),
   MkFile("models", "eps", "best_model", "", "pth"),
   MkFile("extra", "eps", "best_model_", "v2", "pth"),
   MkFile("finetuned_ckpt", "visc", "best_model", "", "pth"),
   MkFile("models", "visc", "best_model", "", "pth"),
   PretrainedFile}

IdxTrees == {fs \in SUBSET IdxFiles : Cardinality(fs) <= MaxTree}

\* The orders in which a filesystem may list the files fs.
ListingsOf(fs) ==
  {l \in [1..Cardinality(fs) -> fs] : \A i, j \in DOMAIN l : l[i] = l[j] => i = j}

\* One tree on disk; each scan of it meets the files in an order of its own.
InitIdx ==
  /\ ready = FALSE
  /\ downloading = FALSE
  /\ age = 0
  /\ indexFile = NoFile
  /\ tmpFile = [w \in Workers |-> NoFile]
  /\ zipFile = [a \in DOMAIN ARTIFACTS |-> "absent"]
  /\ files \in IdxTrees
  /\ pc = [w \in Workers |-> "listdir"]
  /\ frame = [w \in Workers |-> NoFrame]
  /\ result = [w \in Workers |-> NoResult]
  /\ writes = [w \in Workers |-> {}]
  /\ stale = [w \in Workers |-> ""]
  /\ skip_download = TRUE
  /\ VolIdle
  /\ ModalIdle
  /\ prev = [w \in Workers |-> NoResult]
  /\ faults = [io |-> 0, kill |-> 0]
  /\ DevIdle
  /\ DocIdle
  /\ listing \in [Workers -> ListingsOf(files)]
  /\ AppIdle

\* index = _build_property_index(root)
BuildListed(w) ==
  /\ pc[w] = "listdir"
  /\ pc' = [pc EXCEPT ![w] = "listed"]
  /\ result' = [result EXCEPT ![w] = Returned(build_property_index(listing[w]))]
  /\ UNCHANGED <<fsVars, frame, ghostVars, hpcVars>>

NextIdx == \E w \in Workers : BuildListed(w)

SpecIdx == InitIdx /\ [][NextIdx]_vars

\* ------------------------------------ checkpoint_manager: required artifacts
LabelStatsFile == MkFile("", "", "", "label_stats", "json")
ScalerFile == MkFile("", "", "", "descriptor_scaler", "pkl")

\* Lines 201-210: the artifacts inference needs, by key, each with its path
\* below the root.
required_artifacts ==
  [pretrained_ckpt |-> "pretrained_ckpt", finetuned_ckpt |-> "finetuned_ckpt",
   label_stats_json |-> "label_stats.json",
   descriptor_scaler_pkl |-> "descriptor_scaler.pkl", index_json |-> "index.json"]

\* path.exists() for the paths of required_artifacts.
PathExists(path) ==
  CASE path = "pretrained_ckpt" -> IsDir(files, "pretrained_ckpt")
    [] path = "finetuned_ckpt" -> IsDir(files, "finetuned_ckpt")
    [] path = "label_stats.json" -> LabelStatsFile \in files
    [] path = "descriptor_scaler.pkl" -> ScalerFile \in files
    [] path = "index.json" -> indexFile.exists

\* Lines 213-219 as they would be if a path counted as missing when it exists.
missing_required_present ==
  {key \in DOMAIN required_artifacts : PathExists(required_artifacts[key])}

\* Lines 213-219: the keys whose path does not exist.
missing_required_artifacts ==
  {key \in DOMAIN required_artifacts : ~PathExists(required_artifacts[key])}

\* ------------------------------------------- config.DoctorReport, run_doctor
\* Lines 44-50 with the two tests in the other order.
exit_code_warnings_first(r) ==
  IF r.warnings # <<>> THEN 1 ELSE IF r.fatals # <<>> THEN 2 ELSE 0

\* Lines 44-50: DoctorReport.exit_code
exit_code(r) ==
  IF r.fatals # <<>> THEN 2 ELSE IF r.warnings # <<>> THEN 1 ELSE 0

\* Lines 52-58: DoctorReport.verdict
verdict(r) ==
  IF r.fatals # <<>> THEN "FAIL" ELSE IF r.warnings # <<>> THEN "WARN" ELSE "PASS"

\* report.warnings.append(message) / report.fatals.append(message) under a test
AppendIf(test, message) == IF test THEN <<message>> ELSE <<>>

\* Lines 364-367: the warning about DGLBACKEND.
DglBackendWarning(env) ==
  AppendIf(env.dglbackend # "pytorch", "DGLBACKEND is not set to 'pytorch'.")

\* Lines 389-392: a driver is there but CUDA is not.
DriverWithoutCudaWarning ==
  AppendIf(driver_version # <<>> /\ ~cuda_available,
           "Driver detected but torch.cuda.is_available() is false")

\* Lines 369-372: the directories.
DirectoryFatals(env) ==
  AppendIf(~env.src_dir, "Source directory missing")
    \o AppendIf(~env.checkpoint_dir, "Checkpoint directory missing")

\* Lines 374-384: the driver and the compute capability of a GPU that is there.
GpuFatals ==
  LET parsed == parse_version_tuple(driver_version)
  IN  AppendIf(cuda_available /\ parsed # <<>> /\ version_lt(parsed, MIN_DRIVER_VERSION),
               "Driver incompatible")
        \o AppendIf(cuda_available /\ torch_present
                      /\ TupleLt(cap, MIN_COMPUTE_CAPABILITY),
                    "Unsupported GPU compute capability")

\* Lines 386-387 as they would be without the test of the request.
RequestFatalsNone(c) == <<>>

\* Lines 386-387: CUDA was asked for and is not there.
RequestFatals(c) ==
  AppendIf(~cuda_available /\ Lower(c.device_request) = cuda,
           "PERIOGT_DEVICE=cuda requested but CUDA unavailable.")

\* Lines 394-407: the artifacts; ensure_runtime_package_path raises when the
\* periogt_runtime package is not found.
ArtifactFatals(env) ==
  IF ~env.runtime_package THEN <<"Artifact diagnostics failed">>
  ELSE AppendIf(missing_required_artifacts # {}, "Missing artifacts")

\* Lines 409-414: import dgl
DglFatals(env) == AppendIf(~env.dgl, "DGL import failed")

\* cli.py lines 184, config.py lines 271-331: resolve_config with neither
\* directory required. _resolve_device may raise, and then the command
\* prints the error and exits with its exit code (cli.py lines 18-21); else
\* the results directory is made and the HpcConfig returned.
ResolveConfig ==
  /\ rpc = "resolve_config"
  /\ LET requested == Strip(Lower(IF mode = <<>> THEN auto ELSE mode))
         resolved ==
           IF requested \notin {auto, cpu, cuda}
           THEN Failed("validation_error",
                       "PERIOGT_DEVICE must be one of: auto, cpu, cuda.")
           ELSE Decide(requested, torch_present, cuda_available, cap,
                       parse_version_tuple(driver_version))
     IN  IF resolved.kind = "error"
         THEN /\ rpc' = "done"
              /\ exit_status' = [verdict |-> "", exit_code |-> 2,
                                 error |-> resolved.error.code]
              /\ UNCHANGED <<environ, cfg>>
         ELSE /\ rpc' = "run_doctor"
              /\ environ' = [environ EXCEPT !.results_dir = TRUE]
              /\ cfg' = [device_request |-> IF mode = <<>> THEN auto ELSE mode,
                         device |-> resolved]
              /\ UNCHANGED exit_status
  /\ UNCHANGED <<fsVars, wkVars, ghostVars, devVars, report, listing, modalVars, appVars>>

\* RunDoctor as it would be if the doctor rebuilt a missing index.json the
\* way ensure_checkpoints does.
RunDoctorRebuilds ==
  /\ rpc = "run_doctor"
  /\ report' = [warnings |-> DglBackendWarning(environ) \o DriverWithoutCudaWarning,
                fatals |-> DirectoryFatals(environ) \o GpuFatals \o RequestFatals(cfg)
                             \o ArtifactFatals(environ) \o DglFatals(environ)]
  /\ rpc' = "emit"
  /\ indexFile' = IF ready /\ ~indexFile.exists
                  THEN JsonFile(CHOOSE ix \in BuildIndexResults(files) : TRUE)
                  ELSE indexFile
  /\ UNCHANGED <<ready, downloading, age, tmpFile, zipFile, files, wkVars,
                 ghostVars, devVars, environ, cfg, exit_status, listing, modalVars, appVars>>

\* config.py lines 345-416: run_doctor(cfg)
RunDoctor ==
  /\ rpc = "run_doctor"
  /\ report' = [warnings |-> DglBackendWarning(environ) \o DriverWithoutCudaWarning,
                fatals |-> DirectoryFatals(environ) \o GpuFatals \o RequestFatals(cfg)
                             \o ArtifactFatals(environ) \o DglFatals(environ)]
  /\ rpc' = "emit"
  /\ UNCHANGED <<fsVars, wkVars, ghostVars, devVars, environ, cfg, exit_status,
                 listing, modalVars, appVars>>

\* cli.py lines 186-193: the payload is printed and the command exits.
DoctorEmit ==
  /\ rpc = "emit"
  /\ exit_status' = [verdict |-> verdict(report), exit_code |-> exit_code(report),
                     error |-> ""]
  /\ rpc' = "done"
  /\ UNCHANGED <<fsVars, wkVars, ghostVars, devVars, environ, cfg, report, listing, modalVars, appVars>>

\* The values of PERIOGT_DEVICE, the drivers and the capabilities the doctor
\* is tried with: PERIOGT_DEVICE unset, cpu, cuda, CUDA, " cuda", gpu.
DocModes ==
  {<<>>, cpu, cuda, <<"C", "U", "D", "A">>, <<" ", "c", "u", "d", "a">>,
   <<"g", "p", "u">>}
DocDrivers ==
  {<<>>, <<"N", "/", "A">>, <<"5", "6", "0", ".", "2", "8">>,
   <<"5", "6", "0", ".", "2", "7">>}
DocCapabilities == {<<6, 1>>, <<7, 0>>}

\* The checkpoint roots the doctor is tried on: empty; bootstrapped by
\* ensure_checkpoints; bootstrapped and with label_stats.json and
\* descriptor_scaler.pkl put there; the same without index.json; a bootstrap
\* under way.
DocRoots ==
  LET none == [a \in DOMAIN ARTIFACTS |-> "absent"]
      ix == CHOOSE i \in BuildIndexResults(FullTree) : TRUE
  IN  {[ready |-> FALSE, downloading |-> FALSE, indexFile |-> NoFile,
        zipFile |-> none, files |-> {}],
       [ready |-> TRUE, downloading |-> FALSE, indexFile |-> JsonFile(ix),
        zipFile |-> none, files |-> FullTree],
       [ready |-> TRUE, downloading |-> FALSE, indexFile |-> JsonFile(ix),
        zipFile |-> none, files |-> FullTree \cup {LabelStatsFile, ScalerFile}],
       [ready |-> TRUE, downloading |-> FALSE, indexFile |-> NoFile,
        zipFile |-> none, files |-> FullTree \cup {LabelStatsFile, ScalerFile}],
       [ready |-> FALSE, downloading |-> TRUE, indexFile |-> NoFile,
        zipFile |-> [none EXCEPT !["pretrained_ckpt.zip"] = "good"],
        files |-> {LabelStatsFile}]}

\* The doctor command is started (rpc = "resolve_config"), or run_doctor is
\* called with an HpcConfig of the caller's (rpc = "run_doctor"), on a
\* machine and a checkpoint root as they may be found.
InitDoc ==
  /\ environ \in [dglbackend : {"pytorch", ""}, src_dir : BOOLEAN,
                  checkpoint_dir : BOOLEAN, results_dir : {FALSE},
                  runtime_package : BOOLEAN, dgl : BOOLEAN]
  /\ \E root \in DocRoots :
       /\ environ.checkpoint_dir \/ (root.files = {} /\ ~root.ready)
       /\ ready = root.ready
       /\ downloading = root.downloading
       /\ indexFile = root.indexFile
       /\ zipFile = root.zipFile
       /\ files = root.files
  /\ age = 0
  /\ tmpFile = [w \in Workers |-> NoFile]
  /\ pc = [w \in Workers |-> "idle"]
  /\ frame = [w \in Workers |-> NoFrame]
  /\ result = [w \in Workers |-> NoResult]
  /\ writes = [w \in Workers |-> {}]
  /\ stale = [w \in Workers |-> ""]
  /\ skip_download = FALSE
  /\ VolIdle
  /\ ModalIdle
  /\ prev = [w \in Workers |-> NoResult]
  /\ faults = [io |-> 0, kill |-> 0]
  /\ mode \in DocModes
  /\ torch_present \in BOOLEAN
  /\ cuda_available \in (IF torch_present THEN BOOLEAN ELSE {FALSE})
  /\ cap \in (IF cuda_available THEN DocCapabilities ELSE {<<0, 0>>})
  /\ driver_version \in DocDrivers
  /\ request = <<>>
  /\ driver_tuple = <<>>
  /\ device = NoDevice
  /\ dpc = "off"
  /\ rpc \in {"resolve_config", "run_doctor"}
  /\ cfg = (IF rpc = "run_doctor"
            THEN [device_request |-> IF mode = <<>> THEN auto ELSE mode,
                  device |-> mk_device("cpu", "")]
            ELSE NoCfg)
  /\ report = NoReport
  /\ exit_status = NoExit
  /\ listing = NoListing
  /\ AppIdle

NextDoc == ResolveConfig \/ RunDoctor \/ DoctorEmit

SpecDoc == InitDoc /\ [][NextDoc]_vars

\* ------------------- _ensure_property_model_loaded (periogt_modal_app.py)
\* The requests one container serves at a time, the property identifiers they
\* ask for ("visc" is never indexed) and the load failures injected per
\* property.
NumRequests == 3
MaxLoadFailures == 1

Requests == 1..NumRequests
AppProps == {"eps", "tg", "visc"}
NoLoads == [begun |-> 0, failed |-> 0, stored |-> 0]

\* _state after _ensure_ready: models is a LoadedModels with no finetuned
\* model (or still None), property_index holds the indexed properties, each
\* with a checkpoint path that exists or not.
InitApp ==
  /\ ready = FALSE
  /\ downloading = FALSE
  /\ age = 0
  /\ indexFile = NoFile
  /\ tmpFile = [w \in Workers |-> NoFile]
  /\ zipFile = [a \in DOMAIN ARTIFACTS |-> "absent"]
  /\ files = {}
  /\ pc = [w \in Workers |-> "idle"]
  /\ frame = [w \in Workers |-> NoFrame]
  /\ result = [w \in Workers |-> NoResult]
  /\ writes = [w \in Workers |-> {}]
  /\ stale = [w \in Workers |-> ""]
  /\ skip_download = TRUE
  /\ VolIdle
  /\ ModalIdle
  /\ prev = [w \in Workers |-> NoResult]
  /\ faults = [io |-> 0, kill |-> 0]
  /\ DevIdle
  /\ DocIdle
  /\ listing = NoListing
  /\ \E loaded \in BOOLEAN : models = [loaded |-> loaded, finetuned_models |-> {}]
  /\ \E tg_exists \in BOOLEAN :
       property_index = [p \in {"eps", "tg"} |-> IF p = "tg" THEN tg_exists ELSE TRUE]
  /\ property_model_locks = <<>>
  /\ qpc = [r \in Requests |-> "idle"]
  /\ qprop = [r \in Requests |-> ""]
  /\ qresult = [r \in Requests |-> ""]
  /\ loads = [p \in AppProps |-> NoLoads]
  /\ PureIdle

QGoto(r, label) ==
  /\ qpc' = [qpc EXCEPT ![r] = label]
  /\ UNCHANGED qresult

QFinish(r, outcome) ==
  /\ qpc' = [qpc EXCEPT ![r] = "done"]
  /\ qresult' = [qresult EXCEPT ![r] = outcome]

\* Leaving the with block, by return or by exception, releases the lock.
QRelease(r) ==
  property_model_locks' = [property_model_locks EXCEPT ![qprop[r]] = 0]

\* _ensure_property_model_loaded(property_id) is called by a request handler.
QCall(r, property_id) ==
  /\ qpc[r] = "idle"
  /\ qpc' = [qpc EXCEPT ![r] = "models"]
  /\ qprop' = [qprop EXCEPT ![r] = property_id]
  /\ qresult' = [qresult EXCEPT ![r] = ""]
  /\ UNCHANGED <<fsVars, wkVars, ghostVars, devVars, docVars, listing, modalVars, pureVars, rargs, models,
                 property_index, property_model_locks, loads>>

\* models = _state["models"]; if models is None: raise RuntimeError
QModels(r) ==
  /\ qpc[r] = "models"
  /\ IF models.loaded THEN QGoto(r, "fast") ELSE QFinish(r, "not_initialized")
  /\ UNCHANGED <<fsVars, wkVars, ghostVars, devVars, docVars, listing, modalVars, pureVars, rargs, models,
                 property_index, property_model_locks, qprop, loads>>

\* if property_id in models.finetuned_models: return
QFast(r) ==
  /\ qpc[r] = "fast"
  /\ IF qprop[r] \in models.finetuned_models
     THEN QFinish(r, "return")
     ELSE QGoto(r, "indexed")
  /\ UNCHANGED <<fsVars, wkVars, ghostVars, devVars, docVars, listing, modalVars, pureVars, rargs, models,
                 property_index, property_model_locks, qprop, loads>>

\* if property_id not in _state["property_index"]: raise ValueError
QIndexed(r) ==
  /\ qpc[r] = "indexed"
  /\ IF qprop[r] \in DOMAIN property_index
     THEN QGoto(r, "setdefault")
     ELSE QFinish(r, "unsupported_property")
  /\ UNCHANGED <<fsVars, wkVars, ghostVars, devVars, docVars, listing, modalVars, pureVars, rargs, models,
                 property_index, property_model_locks, qprop, loads>>

\* lock = _property_model_locks.setdefault(property_id, threading.Lock()):
\* one dictionary operation, which keeps the lock already stored under the key.
QSetDefault(r) ==
  /\ qpc[r] = "setdefault"
  /\ property_model_locks' =
       IF qprop[r] \in DOMAIN property_model_locks
       THEN property_model_locks
       ELSE [p \in DOMAIN property_model_locks \cup {qprop[r]} |->
               IF p = qprop[r] THEN 0 ELSE property_model_locks[p]]
  /\ QGoto(r, "acquire")
  /\ UNCHANGED <<fsVars, wkVars, ghostVars, devVars, docVars, listing, modalVars, pureVars, rargs, models,
                 property_index, qprop, loads>>

\* The lock of the request's property is free.
LockFree(r) == property_model_locks[qprop[r]] = 0

\* with lock, entered without waiting for the lock to be free.
QAcquireNoWait(r) ==
  /\ qpc[r] = "acquire"
  /\ property_model_locks' = [property_model_locks EXCEPT ![qprop[r]] = r]
  /\ QGoto(r, "recheck")
  /\ UNCHANGED <<fsVars, wkVars, ghostVars, devVars, docVars, listing, modalVars, pureVars, rargs, models,
                 property_index, qprop, loads>>

\* with lock: blocks until the lock is free, then takes it.
QAcquire(r) ==
  /\ qpc[r] = "acquire"
  /\ LockFree(r)
  /\ property_model_locks' = [property_model_locks EXCEPT ![qprop[r]] = r]
  /\ QGoto(r, "recheck")
  /\ UNCHANGED <<fsVars, wkVars, ghostVars, devVars, docVars, listing, modalVars, pureVars, rargs, models,
                 property_index, qprop, loads>>

\* if property_id in models.finetuned_models: return   (under the lock)
QRecheck(r) ==
  /\ qpc[r] = "recheck"
  /\ IF qprop[r] \in models.finetuned_models
     THEN QFinish(r, "return") /\ QRelease(r)
     ELSE QGoto(r, "ckpt") /\ UNCHANGED property_model_locks
  /\ UNCHANGED <<fsVars, wkVars, ghostVars, devVars, docVars, listing, modalVars, pureVars, rargs, models,
                 property_index, qprop, loads>>

\* if not ckpt_path or not os.path.exists(ckpt_path): raise RuntimeError
QCheckpoint(r) ==
  /\ qpc[r] = "ckpt"
  /\ IF property_index[qprop[r]]
     THEN QGoto(r, "load") /\ UNCHANGED property_model_locks
     ELSE QFinish(r, "checkpoint_not_found") /\ QRelease(r)
  /\ UNCHANGED <<fsVars, wkVars, ghostVars, devVars, docVars, listing, modalVars, pureVars, rargs, models,
                 property_index, qprop, loads>>

\* model = load_finetuned_model(ckpt_path, device=...): it returns the model,
\* or raises (an unreadable or damaged checkpoint file).
QLoad(r) ==
  /\ qpc[r] = "load"
  /\ \/ /\ loads' = [loads EXCEPT ![qprop[r]].begun = @ + 1]
        /\ QGoto(r, "store")
        /\ UNCHANGED property_model_locks
     \/ /\ loads[qprop[r]].failed < MaxLoadFailures
        /\ loads' = [loads EXCEPT ![qprop[r]].begun = @ + 1,
                                  ![qprop[r]].failed = @ + 1]
        /\ QFinish(r, "load_failed")
        /\ QRelease(r)
  /\ UNCHANGED <<fsVars, wkVars, ghostVars, devVars, docVars, listing, modalVars, pureVars, rargs, models,
                 property_index, qprop>>

\* models.finetuned_models[property_id] = model, and the end of the with block
QStore(r) ==
  /\ qpc[r] = "store"
  /\ models' = [models EXCEPT !.finetuned_models = @ \cup {qprop[r]}]
  /\ loads' = [loads EXCEPT ![qprop[r]].stored = @ + 1]
  /\ QFinish(r, "return")
  /\ QRelease(r)
  /\ UNCHANGED <<fsVars, wkVars, ghostVars, devVars, docVars, listing, modalVars, pureVars, rargs,
                 property_index, qprop>>

\* The handler goes on (predict_property) and the request ends.
QDone(r) ==
  /\ qpc[r] = "done"
  /\ qpc' = [qpc EXCEPT ![r] = "idle"]
  /\ UNCHANGED <<fsVars, wkVars, ghostVars, devVars, docVars, listing, modalVars, pureVars, rargs, models,
                 property_index, property_model_locks, qprop, qresult, loads>>

NextApp ==
  \E r \in Requests :
     \/ \E property_id \in AppProps : QCall(r, property_id)
     \/ QModels(r)
     \/ QFast(r)
     \/ QIndexed(r)
     \/ QSetDefault(r)
     \/ QAcquire(r)
     \/ QRecheck(r)
     \/ QCheckpoint(r)
     \/ QLoad(r)
     \/ QStore(r)
     \/ QDone(r)

SpecApp == InitApp /\ [][NextApp]_vars

\* ------------------------------------------------ map_exception (errors.py)
\* ERROR_HTTP_STATUS and ERROR_EXIT_CODE, keyed by code.
ERROR_HTTP_STATUS ==
  [c \in {"validation_error", "unsupported_property", "checkpoint_missing",
          "checksum_mismatch", "model_load_failed", "cuda_unavailable",
          "gpu_unsupported", "driver_incompatible", "internal_error"} |->
     IF c \in {"validation_error", "unsupported_property"} THEN 422 ELSE 500]

ERROR_EXIT_CODE == [c \in DOMAIN ERROR_HTTP_STATUS |-> 2]

\* PerioGTError.http_status and PerioGTError.exit_code
http_status(code) ==
  IF code \in DOMAIN ERROR_HTTP_STATUS THEN ERROR_HTTP_STATUS[code] ELSE 500

error_exit_code(code) ==
  IF code \in DOMAIN ERROR_EXIT_CODE THEN ERROR_EXIT_CODE[code] ELSE 2

\* The pieces the messages of the caught exceptions are put together from,
\* and the number of pieces of one message.
MaxPieces == 2

ErrPieces ==
  {"Unsupported property ", "SMILES must include polymer connection points",
   "Checksum mismatch for ", "[Errno 2] No such file or directory: ", "/models/",
   ".downloading", "CUDA is ", "unavailable", "checkpoint", "missing",
   "<urlopen error timed out>", "driver", "560.28", "compute capability"}

ErrMessages(n) == UNION {[1..k -> ErrPieces] : k \in 0..n}

\* What a caller boundary can catch: a ValueError of the validation, a
\* RuntimeError, an OSError or URLError of the system, or a PerioGTError with
\* any code (one outside the tables included), with or without details.
PlainTypes == {"ValueError", "RuntimeError", "OSError", "URLError"}

CaughtExceptions ==
  {[type |-> t, code |-> "", msg |-> m, details |-> ""] :
     t \in PlainTypes, m \in ErrMessages(MaxPieces)}
    \cup {[type |-> "PerioGTError", code |-> c, msg |-> m, details |-> d] :
            c \in DOMAIN ERROR_EXIT_CODE \cup {"custom_code"},
            m \in ErrMessages(1), d \in {"", "details"}}

InitErr ==
  /\ ready = FALSE
  /\ downloading = FALSE
  /\ age = 0
  /\ indexFile = NoFile
  /\ tmpFile = [w \in Workers |-> NoFile]
  /\ zipFile = [a \in DOMAIN ARTIFACTS |-> "absent"]
  /\ files = {}
  /\ pc = [w \in Workers |-> "idle"]
  /\ frame = [w \in Workers |-> NoFrame]
  /\ result = [w \in Workers |-> NoResult]
  /\ writes = [w \in Workers |-> {}]
  /\ stale = [w \in Workers |-> ""]
  /\ skip_download = TRUE
  /\ VolIdle
  /\ ModalIdle
  /\ prev = [w \in Workers |-> NoResult]
  /\ faults = [io |-> 0, kill |-> 0]
  /\ DevIdle
  /\ DocIdle
  /\ listing = NoListing
  /\ models = NoModels
  /\ property_index = <<>>
  /\ property_model_locks = <<>>
  /\ qpc = <<>>
  /\ qprop = <<>>
  /\ qresult = <<>>
  /\ loads = <<>>
  /\ exc_in \in CaughtExceptions
  /\ mapped = NoMapped
  /\ remapped = NoMapped
  /\ epc = "caught"
  /\ VerIdle
  /\ rargs = NoArgs

\* The PerioGTError map_exception returns for exc: exc itself, details
\* included, when exc is one (lines 66-67), else a new error without details.
MapExceptionDroppingDetails(exc) ==
  LET err == map_exception(exc)
  IN  [code |-> err.code, message |-> err.message, details |-> "",
       same_object |-> FALSE,
       exit_code |-> error_exit_code(err.code), http_status |-> http_status(err.code)]

MapException(exc) ==
  LET err == map_exception(exc)
  IN  [code |-> err.code, message |-> err.message,
       details |-> IF exc.type = "PerioGTError" THEN exc.details ELSE "",
       same_object |-> exc.type = "PerioGTError",
       exit_code |-> error_exit_code(err.code), http_status |-> http_status(err.code)]

\* A PerioGTError, caught as an exception.
AsException(err) ==
  [type |-> "PerioGTError", code |-> err.code, msg |-> err.message,
   details |-> err.details]

\* err = map_exception(exc)  (cli.py 19, server.py 74)
MapCaught ==
  /\ epc = "caught"
  /\ mapped' = MapException(exc_in)
  /\ epc' = "mapped"
  /\ UNCHANGED <<fsVars, wkVars, ghostVars, devVars, docVars, listing, modalVars, models,
                 property_index, property_model_locks, qpc, qprop, qresult, loads, rargs,
                 exc_in, remapped, verVars>>

\* The mapped error is raised again and caught by the next boundary
\* (server.py 134 and 74).
MapAgain ==
  /\ epc = "mapped"
  /\ remapped' = MapException(AsException(mapped))
  /\ epc' = "remapped"
  /\ UNCHANGED <<fsVars, wkVars, ghostVars, devVars, docVars, listing, modalVars, models,
                 property_index, property_model_locks, qpc, qprop, qresult, loads, rargs,
                 exc_in, mapped, verVars>>

NextErr == MapCaught \/ MapAgain

SpecErr == InitErr /\ [][NextErr]_vars

\* ------------------------------------------------ _version_lt (config.py)
\* The length of a version tuple and the largest of its components.
MaxVersionLen == 3
MaxComponent == 1

VersionTuples == UNION {[1..k -> 0..MaxComponent] : k \in 0..MaxVersionLen}

\* Any three version tuples, as _parse_version_tuple may return them.
InitVer ==
  /\ ready = FALSE
  /\ downloading = FALSE
  /\ age = 0
  /\ indexFile = NoFile
  /\ tmpFile = [w \in Workers |-> NoFile]
  /\ zipFile = [a \in DOMAIN ARTIFACTS |-> "absent"]
  /\ files = {}
  /\ pc = [w \in Workers |-> "idle"]
  /\ frame = [w \in Workers |-> NoFrame]
  /\ result = [w \in Workers |-> NoResult]
  /\ writes = [w \in Workers |-> {}]
  /\ stale = [w \in Workers |-> ""]
  /\ skip_download = TRUE
  /\ VolIdle
  /\ ModalIdle
  /\ prev = [w \in Workers |-> NoResult]
  /\ faults = [io |-> 0, kill |-> 0]
  /\ DevIdle
  /\ DocIdle
  /\ listing = NoListing
  /\ models = NoModels
  /\ property_index = <<>>
  /\ property_model_locks = <<>>
  /\ qpc = <<>>
  /\ qprop = <<>>
  /\ qresult = <<>>
  /\ loads = <<>>
  /\ ErrIdle
  /\ va \in VersionTuples
  /\ vb \in VersionTuples
  /\ vc \in VersionTuples
  /\ vlt = NoComparison
  /\ vpc = "drawn"
  /\ rargs = NoArgs

\* _version_lt on the pairs of the three tuples, on va and va with a zero
\* appended, and Python's own tuple order on va and vb (the capability test
\* of lines 225, 252 and 381).
CompareVersions ==
  /\ vpc = "drawn"
  /\ vlt' = [ab |-> version_lt(va, vb), ba |-> version_lt(vb, va),
             bc |-> version_lt(vb, vc), ac |-> version_lt(va, vc),
             aa |-> version_lt(va, va),
             a_ext |-> version_lt(va, Append(va, 0)),
             ext_a |-> version_lt(Append(va, 0), va),
             tuple_ab |-> TupleLt(va, vb)]
  /\ vpc' = "compared"
  /\ UNCHANGED <<fsVars, wkVars, ghostVars, devVars, docVars, listing, modalVars, models,
                 property_index, property_model_locks, qpc, qprop, qresult, loads, rargs,
                 errVars, va, vb, vc>>

NextVer == CompareVersions

SpecVer == InitVer /\ [][NextVer]_vars

\* ---------------------------------------------- resolve_config (config.py)
\* Lines 295-296: device = _resolve_device(os.environ.get("PERIOGT_DEVICE", "auto"))
ResolvedDevice ==
  LET requested == Strip(Lower(IF mode = <<>> THEN auto ELSE mode))
  IN  IF requested \notin {auto, cpu, cuda}
      THEN Failed("validation_error", "PERIOGT_DEVICE must be one of: auto, cpu, cuda.")
      ELSE Decide(requested, torch_present, cuda_available, cap,
                  parse_version_tuple(driver_version))

\* resolve_config is called with any keyword arguments, on a machine as it
\* may be found; the results directory does not exist yet.
InitCfg ==
  /\ ready = FALSE
  /\ downloading = FALSE
  /\ age = 0
  /\ indexFile = NoFile
  /\ tmpFile = [w \in Workers |-> NoFile]
  /\ zipFile = [a \in DOMAIN ARTIFACTS |-> "absent"]
  /\ files = {}
  /\ pc = [w \in Workers |-> "idle"]
  /\ frame = [w \in Workers |-> NoFrame]
  /\ result = [w \in Workers |-> NoResult]
  /\ writes = [w \in Workers |-> {}]
  /\ stale = [w \in Workers |-> ""]
  /\ skip_download = FALSE
  /\ VolIdle
  /\ ModalIdle
  /\ prev = [w \in Workers |-> NoResult]
  /\ faults = [io |-> 0, kill |-> 0]
  /\ mode \in DocModes
  /\ torch_present \in BOOLEAN
  /\ cuda_available \in (IF torch_present THEN BOOLEAN ELSE {FALSE})
  /\ cap \in (IF cuda_available THEN DocCapabilities ELSE {<<0, 0>>})
  /\ driver_version \in DocDrivers
  /\ request = <<>>
  /\ driver_tuple = <<>>
  /\ device = NoDevice
  /\ dpc = "off"
  /\ environ \in [dglbackend : {""}, src_dir : BOOLEAN, checkpoint_dir : BOOLEAN,
                  results_dir : {FALSE}, runtime_package : {TRUE}, dgl : {TRUE}]
  /\ cfg = NoCfg
  /\ report = NoReport
  /\ exit_status = NoExit
  /\ rpc = "call"
  /\ listing = NoListing
  /\ models = NoModels
  /\ property_index = <<>>
  /\ property_model_locks = <<>>
  /\ qpc = <<>>
  /\ qprop = <<>>
  /\ qresult = <<>>
  /\ loads = <<>>
  /\ ErrIdle
  /\ VerIdle
  /\ rargs \in [require_checkpoint_dir : BOOLEAN, require_source_dir : BOOLEAN,
                create_results_dir : BOOLEAN]

\* What a call of resolve_config that raised leaves its caller with.
ConfigError(code) == [verdict |-> "", exit_code |-> error_exit_code(code), error |-> code]

\* resolve_config as it would be with the results directory made before the
\* directories are checked.
ResolveConfigMkdirFirst ==
  /\ rpc = "call"
  /\ environ' = [environ EXCEPT !.results_dir = @ \/ rargs.create_results_dir]
  /\ IF ResolvedDevice.kind = "error"
     THEN /\ rpc' = "raised"
          /\ exit_status' = ConfigError(ResolvedDevice.error.code)
          /\ UNCHANGED cfg
     ELSE IF \/ rargs.require_checkpoint_dir /\ ~environ.checkpoint_dir
             \/ rargs.require_source_dir /\ ~environ.src_dir
     THEN /\ rpc' = "raised"
          /\ exit_status' = ConfigError("checkpoint_missing")
          /\ UNCHANGED cfg
     ELSE /\ rpc' = "returned"
          /\ cfg' = [device_request |-> IF mode = <<>> THEN auto ELSE mode,
                     device |-> ResolvedDevice]
          /\ UNCHANGED exit_status
  /\ UNCHANGED <<fsVars, wkVars, ghostVars, devVars, report, listing, modalVars, models,
                 property_index, property_model_locks, qpc, qprop, qresult, loads,
                 pureVars, rargs>>

\* Lines 271-331: resolve_config. The device is resolved first (296), then
\* the two directories are checked (298-309), then the results directory is
\* made (311-312) and the HpcConfig returned.
ResolveConfigCall ==
  /\ rpc = "call"
  /\ IF ResolvedDevice.kind = "error"
     THEN /\ rpc' = "raised"
          /\ exit_status' = ConfigError(ResolvedDevice.error.code)
          /\ UNCHANGED <<environ, cfg>>
     ELSE IF \/ rargs.require_checkpoint_dir /\ ~environ.checkpoint_dir
             \/ rargs.require_source_dir /\ ~environ.src_dir
     THEN /\ rpc' = "raised"
          /\ exit_status' = ConfigError("checkpoint_missing")
          /\ UNCHANGED <<environ, cfg>>
     ELSE /\ rpc' = "returned"
          /\ environ' = [environ EXCEPT !.results_dir = @ \/ rargs.create_results_dir]
          /\ cfg' = [device_request |-> IF mode = <<>> THEN auto ELSE mode,
                     device |-> ResolvedDevice]
          /\ UNCHANGED exit_status
  /\ UNCHANGED <<fsVars, wkVars, ghostVars, devVars, report, listing, modalVars, models,
                 property_index, property_model_locks, qpc, qprop, qresult, loads,
                 pureVars, rargs>>

NextCfg == ResolveConfigCall

SpecCfg == InitCfg /\ [][NextCfg]_vars

\* ------------------------------ the staleness threshold (lines 77-89, 257-267)
\* A root on which no call runs.
RootIdle ==
  /\ ready = FALSE
  /\ downloading = FALSE
  /\ age = 0
  /\ indexFile = NoFile
  /\ tmpFile = [w \in Workers |-> NoFile]
  /\ zipFile = [a \in DOMAIN ARTIFACTS |-> "absent"]
  /\ files = {}
  /\ pc = [w \in Workers |-> "idle"]
  /\ frame = [w \in Workers |-> NoFrame]
  /\ result = [w \in Workers |-> NoResult]
  /\ writes = [w \in Workers |-> {}]
  /\ stale = [w \in Workers |-> ""]
  /\ skip_download = FALSE
  /\ prev = [w \in Workers |-> NoResult]
  /\ faults = [io |-> 0, kill |-> 0]
  /\ VolIdle

\* A Python float, in tenths of a second when it is finite.
Finite(n) == [kind |-> "finite", tenths |-> n]
Inf == [kind |-> "inf", tenths |-> 0]
NegInf == [kind |-> "-inf", tenths |-> 0]
NaN == [kind |-> "nan", tenths |-> 0]

FloatRank(x) == CASE x.kind = "-inf" -> 0 [] x.kind = "finite" -> 1 [] x.kind = "inf" -> 2

\* left < right on floats: False whenever one of them is nan.
FloatLt(left, right) ==
  /\ left.kind # "nan" /\ right.kind # "nan"
  /\ \/ FloatRank(left) < FloatRank(right)
     \/ /\ left.kind = "finite" /\ right.kind = "finite"
        /\ left.tenths < right.tenths

\* left >= right on floats: False whenever one of them is nan.
FloatGe(left, right) ==
  /\ left.kind # "nan" /\ right.kind # "nan"
  /\ ~FloatLt(left, right)

\* float(text) for the texts of RawSettings (no exponent, no underscore, at
\* most one digit after the point): surrounding blanks and a sign are
\* accepted, then inf, infinity or nan in any case, or digits with at most
\* one point; anything else is a ValueError.
ParseFloat(text) ==
  LET t == Strip(text)
      signed == t # <<>> /\ Head(t) \in {"+", "-"}
      negative == signed /\ Head(t) = "-"
      body == Lower(IF signed THEN Tail(t) ELSE t)
      parts == Split(body)
      whole == parts[1]
      frac == IF Len(parts) = 2 THEN parts[2] ELSE <<>>
      magnitude == 10 * ToInt(whole) + (IF frac = <<>> THEN 0 ELSE DigitValue(frac[1]))
  IN  IF body \in {<<"i", "n", "f">>, <<"i", "n", "f", "i", "n", "i", "t", "y">>}
      THEN [ok |-> TRUE, value |-> IF negative THEN NegInf ELSE Inf]
      ELSE IF body = <<"n", "a", "n">> THEN [ok |-> TRUE, value |-> NaN]
      ELSE IF /\ Len(parts) <= 2
              /\ whole \o frac # <<>>
              /\ \A i \in DOMAIN whole : IsDigit(whole[i])
              /\ \A i \in DOMAIN frac : IsDigit(frac[i])
      THEN [ok |-> TRUE, value |-> Finite(IF negative THEN 0 - magnitude ELSE magnitude)]
      ELSE [ok |-> FALSE, value |-> NoFloat]

\* _parse_positive_float_env, lines 77-89.
parse_positive_float_env(rawv, default, minimum) ==
  IF ~rawv.set \/ Strip(rawv.text) = <<>> THEN default
  ELSE LET parsed == ParseFloat(rawv.text)
       IN  IF ~parsed.ok THEN default
           ELSE IF FloatLt(parsed.value, minimum) THEN minimum
           ELSE parsed.value

\* Lines 259-260: the default and the minimum of the stale threshold.
DefaultStaleAfter == Finite(3300)
MinimumStaleAfter == Finite(10)

\* What PERIOGT_CHECKPOINT_DOWNLOAD_STALE_SECONDS may be set to.
Unset == [set |-> FALSE, text |-> <<>>]
Setting(text) == [set |-> TRUE, text |-> text]

RawSettings ==
  {Unset, Setting(<<>>), Setting(<<" ">>), Setting(<<"a", "b", "c">>),
   Setting(<<"1", "x">>), Setting(<<"1", ".", "2", ".", "3">>), Setting(<<".">>),
   Setting(<<"n", "a", "n">>), Setting(<<"N", "a", "N">>), Setting(<<"i", "n", "f">>),
   Setting(<<"-", "i", "n", "f">>), Setting(<<"I", "n", "f", "i", "n", "i", "t", "y">>),
   Setting(<<"0">>), Setting(<<"0", ".", "5">>), Setting(<<"-", "2">>),
   Setting(<<"1">>), Setting(<<" ", "1", ".", "5", " ">>), Setting(<<"+", "2">>),
   Setting(<<"3", "3", "0">>), Setting(<<"4", "0", "0">>)}

\* time.time() minus the mtime of the marker, in tenths of a second; negative
\* when the mtime lies in the future.
MarkerDeltas == {-10, 0, 5, 9, 10, 15, 20, 3299, 3300, 4000}

\* A call has found the marker (line 256).
InitThr ==
  /\ RootIdle
  /\ DevIdle
  /\ DocIdle
  /\ listing = NoListing
  /\ AppIdle
  /\ raw \in RawSettings
  /\ marker_delta \in MarkerDeltas
  /\ stale_after_s = NoFloat
  /\ marker_age_s = NoFloat
  /\ takeover = FALSE
  /\ spc = "parse"
  /\ RdyIdle

\* Lines 257-261.
ParseStaleAfter ==
  /\ spc = "parse"
  /\ stale_after_s' = parse_positive_float_env(raw, DefaultStaleAfter, MinimumStaleAfter)
  /\ spc' = "age"
  /\ UNCHANGED <<fsVars, wkVars, ghostVars, devVars, docVars, listing, appVars,
                 rdyVars, raw, marker_delta, marker_age_s, takeover>>

\* Lines 262-283: the age of the marker and the test against the threshold.
JudgeMarker ==
  /\ spc = "age"
  /\ marker_age_s' = Finite(Max(0, marker_delta))
  /\ takeover' = FloatGe(marker_age_s', stale_after_s)
  /\ spc' = "judged"
  /\ UNCHANGED <<fsVars, wkVars, ghostVars, devVars, docVars, listing, appVars,
                 rdyVars, raw, marker_delta, stale_after_s>>

NextThr == ParseStaleAfter \/ JudgeMarker

SpecThr == InitThr /\ [][NextThr]_vars

\* ---------------------------------- _ensure_ready (periogt_modal_app.py)
\* The threads of one container (modal.concurrent), the requests they make
\* and the polls of the wait loop that are counted.
NumThreads == 2
MaxCalls == 3
MaxClock == 6

Threads == 1..NumThreads

\* Lines 200-209: defaults and minimum of the wait timeout; the poll interval
\* is left at its default of one second, ten tenths.
DefaultWaitTimeout == Finite(50)
MinimumWaitTimeout == Finite(10)
PollTenths == 10

\* time.monotonic() - wait_started, or the age of the marker, after so many
\* polls.
Seconds(polls) == Finite(PollTenths * polls)

\* Lines 220-223.
WaitTimeoutError ==
  [type |-> "RuntimeError", code |-> "",
   msg |-> <<"Timed out waiting for checkpoint bootstrap in another container.">>]

\* What Python raises for a keyword argument the callee does not have.
KeywordError ==
  [type |-> "TypeError", code |-> "",
   msg |-> <<"load_all_models() got an unexpected keyword argument 'load_finetuned'">>]

\* model_loader.py, lines 118-119: the parameters of load_all_models.
LoadAllModelsParameters == {"property_index", "pretrained_dir", "device"}

\* periogt_modal_app.py, lines 267-272: the parameters the call binds.
LoadAllModelsArguments == {"property_index", "pretrained_dir", "device", "load_finetuned"}

\* load_all_models(property_index, VOLUME_ROOT, device=device, load_finetuned=False)
load_all_models_call(index) ==
  IF LoadAllModelsArguments \subseteq LoadAllModelsParameters
  THEN [kind |-> "models", models |-> index, exc |-> NoExc]
  ELSE [kind |-> "raised", models |-> "", exc |-> KeywordError]

\* The root on the volume: the marker state, who wrote the downloading
\* marker (another container that is running, or one that died), the age of
\* the marker in polls and the container that built index.json.
AbsentRoot == [marker |-> "ABSENT", owner |-> "", age |-> 0, index |-> ""]
DownloadingRoot(owner) ==
  [marker |-> "DOWNLOADING", owner |-> owner, age |-> 0, index |-> ""]
ReadyRoot(builder) == [marker |-> "READY", owner |-> "", age |-> 0, index |-> builder]

NoLocals == [elapsed |-> 0, wait_timeout_s |-> NoFloat, exc |-> NoExc, property_index |-> ""]
NoOutcome == [kind |-> "", status |-> 0, exc |-> NoExc]

WaitTimeoutSettings ==
  {Unset, Setting(<<"2">>), Setting(<<"i", "n", "f">>), Setting(<<"n", "a", "n">>)}
StaleSettings == {Setting(<<"3">>), Setting(<<"i", "n", "f">>)}

\* What the two settings are parsed to (lines 200-204 of the app, 257-261 of
\* checkpoint_manager.py).
WaitTimeoutOf ==
  [s \in WaitTimeoutSettings |->
     parse_positive_float_env(s, DefaultWaitTimeout, MinimumWaitTimeout)]
StaleAfterOf ==
  [s \in StaleSettings |->
     parse_positive_float_env(s, DefaultStaleAfter, MinimumStaleAfter)]

\* The checksum error ensure_checkpoints may raise.
BootstrapError ==
  ChecksumError("pretrained_ckpt.zip", ARTIFACTS["pretrained_ckpt.zip"].md5,
                "d41d8cd98f00b204e9800998ecf8427e")

\* The RuntimeErrors the except clause of line 215 and ensure_ready_or_503
\* may catch, and what the tests of lines 216 and 359 find in str(exc).
CaughtRuntimeErrors == {InProgressError, BootstrapError, WaitTimeoutError}
NamesInProgress ==
  [e \in CaughtRuntimeErrors |->
     Contains(Str(e.msg), Chars("Another container is currently downloading checkpoints"))]
NamesCheckpoint ==
  [e \in CaughtRuntimeErrors |-> Contains(Lower(Str(e.msg)), Chars("checkpoint"))]

\* A container that has served no request; the root is empty, or another
\* container is bootstrapping it or died doing so, or it is bootstrapped.
InitRdy ==
  /\ RootIdle
  /\ DevIdle
  /\ DocIdle
  /\ listing = NoListing
  /\ AppIdle
  /\ ThrIdle
  /\ state = [ready |-> FALSE, property_index |-> "", models |-> ""]
  /\ bootstrap_lock = 0
  /\ tpc = [t \in Threads |-> "idle"]
  /\ tloc = [t \in Threads |-> NoLocals]
  /\ tout = [t \in Threads |-> NoOutcome]
  /\ volume_root \in {AbsentRoot, DownloadingRoot("remote"), DownloadingRoot("dead"),
                      ReadyRoot("remote")}
  /\ settings \in [wait_timeout : WaitTimeoutSettings, stale : StaleSettings]
  /\ calls = 0

RdyKeep == <<fsVars, wkVars, ghostVars, devVars, docVars, listing, appVars, thrVars>>

RGoto(t, label) == tpc' = [tpc EXCEPT ![t] = label]

\* _ensure_ready returns: ensure_ready_or_503 returns too.
RReturn(t) ==
  /\ tpc' = [tpc EXCEPT ![t] = "idle"]
  /\ tloc' = [tloc EXCEPT ![t] = NoLocals]
  /\ tout' = [tout EXCEPT ![t] = [kind |-> "returned", status |-> 0, exc |-> NoExc]]

\* e leaves _ensure_ready; lines 354-364 of ensure_ready_or_503 turn a
\* RuntimeError that names a checkpoint into the HTTPException 503, anything
\* else reaches the handler of lines 331-345 (status 500).
RPropagate(t, e) ==
  /\ tpc' = [tpc EXCEPT ![t] = "idle"]
  /\ tloc' = [tloc EXCEPT ![t] = NoLocals]
  /\ tout' = [tout EXCEPT ![t] =
                IF e.type = "RuntimeError" /\ NamesCheckpoint[e]
                THEN [kind |-> "http", status |-> 503, exc |-> e]
                ELSE [kind |-> "raised", status |-> 500, exc |-> e]]

\* A request arrives: ensure_ready_or_503 calls _ensure_ready.
RRequest(t) ==
  /\ tpc[t] = "idle"
  /\ calls < MaxCalls
  /\ calls' = calls + 1
  /\ RGoto(t, "fast")
  /\ tout' = [tout EXCEPT ![t] = NoOutcome]
  /\ UNCHANGED <<RdyKeep, state, bootstrap_lock, tloc, volume_root, settings>>

\* Lines 180-181: if _state["ready"]: return
RFast(t) ==
  /\ tpc[t] = "fast"
  /\ IF state.ready THEN RReturn(t) ELSE RGoto(t, "lock") /\ UNCHANGED <<tloc, tout>>
  /\ UNCHANGED <<RdyKeep, state, bootstrap_lock, volume_root, settings, calls>>

\* with _bootstrap_lock, entered without waiting for the lock to be free.
RAcquireNoWait(t) ==
  /\ tpc[t] = "lock"
  /\ bootstrap_lock' = t
  /\ RGoto(t, "recheck")
  /\ UNCHANGED <<RdyKeep, state, tloc, tout, volume_root, settings, calls>>

\* Line 183: with _bootstrap_lock: blocks until the lock is free.
RAcquire(t) ==
  /\ tpc[t] = "lock"
  /\ bootstrap_lock = 0
  /\ bootstrap_lock' = t
  /\ RGoto(t, "recheck")
  /\ UNCHANGED <<RdyKeep, state, tloc, tout, volume_root, settings, calls>>

\* Lines 184-210: the second test of the flag; the settings of the wait loop
\* are read and wait_started is taken.
RRecheck(t) ==
  /\ tpc[t] = "recheck"
  /\ IF state.ready
     THEN RReturn(t) /\ bootstrap_lock' = 0
     ELSE /\ RGoto(t, "attempt")
          /\ tloc' = [tloc EXCEPT ![t] =
                        [NoLocals EXCEPT !.wait_timeout_s =
                           WaitTimeoutOf[settings.wait_timeout]]]
          /\ UNCHANGED <<tout, bootstrap_lock>>
  /\ UNCHANGED <<RdyKeep, state, volume_root, settings, calls>>

\* The marker on the root is younger than the stale threshold
\* (checkpoint_manager.py, lines 256-267).
FreshMarker ==
  /\ volume_root.marker = "DOWNLOADING"
  /\ ~FloatGe(Seconds(volume_root.age), StaleAfterOf[settings.stale])

\* Line 213: property_index = ensure_checkpoints(volume). On a bootstrapped
\* root it returns the index stored there; on a fresh marker it raises the
\* in-progress error; on an empty root or a stale marker it bootstraps the
\* root itself and returns the index, or fails, removes the marker and
\* raises. A RuntimeError is caught on line 215, any other exception leaves
\* _ensure_ready.
REnsureCheckpoints(t) ==
  /\ tpc[t] = "attempt"
  /\ IF volume_root.marker = "READY"
     THEN /\ tloc' = [tloc EXCEPT ![t].property_index = volume_root.index]
          /\ RGoto(t, "store_index")
          /\ UNCHANGED <<volume_root, tout, bootstrap_lock>>
     ELSE IF FreshMarker
     THEN /\ tloc' = [tloc EXCEPT ![t].exc = InProgressError]
          /\ RGoto(t, "caught")
          /\ UNCHANGED <<volume_root, tout, bootstrap_lock>>
     ELSE \/ /\ volume_root' = ReadyRoot("local")
             /\ tloc' = [tloc EXCEPT ![t].property_index = "local"]
             /\ RGoto(t, "store_index")
             /\ UNCHANGED <<tout, bootstrap_lock>>
          \/ /\ volume_root' = AbsentRoot
             /\ tloc' = [tloc EXCEPT ![t].exc = BootstrapError]
             /\ RGoto(t, "caught")
             /\ UNCHANGED <<tout, bootstrap_lock>>
          \/ /\ volume_root' = AbsentRoot
             /\ RPropagate(t, UrlError)
             /\ bootstrap_lock' = 0
  /\ UNCHANGED <<RdyKeep, state, settings, calls>>

\* str(exc) names the in-progress error (line 216).
IsInProgress(exc) == NamesInProgress[exc]

\* Lines 215-231: except RuntimeError: another error is raised again, the
\* in-progress error after the timeout becomes the timeout error.
RCaught(t) ==
  /\ tpc[t] = "caught"
  /\ IF ~IsInProgress(tloc[t].exc)
     THEN RPropagate(t, tloc[t].exc) /\ bootstrap_lock' = 0
     ELSE IF FloatGe(Seconds(tloc[t].elapsed), tloc[t].wait_timeout_s)
     THEN RPropagate(t, WaitTimeoutError) /\ bootstrap_lock' = 0
     ELSE RGoto(t, "sleep") /\ UNCHANGED <<tloc, tout, bootstrap_lock>>
  /\ UNCHANGED <<RdyKeep, state, volume_root, settings, calls>>

\* Lines 232-233: time.sleep(wait_poll_s); volume.reload(). A poll interval
\* passes for the waiting thread and for the marker. (Polls beyond MaxClock
\* are not counted: MaxClock is above every finite threshold of the
\* settings.)
RSleep(t) ==
  /\ tpc[t] = "sleep"
  /\ tloc' = [tloc EXCEPT ![t].elapsed = IF @ < MaxClock THEN @ + 1 ELSE @]
  /\ volume_root' =
       IF volume_root.marker = "DOWNLOADING" /\ volume_root.age < MaxClock
       THEN [volume_root EXCEPT !.age = @ + 1] ELSE volume_root
  /\ RGoto(t, "attempt")
  /\ UNCHANGED <<RdyKeep, state, bootstrap_lock, tout, settings, calls>>

\* Line 234: _state["property_index"] = property_index
RStoreIndex(t) ==
  /\ tpc[t] = "store_index"
  /\ state' = [state EXCEPT !.property_index = tloc[t].property_index]
  /\ RGoto(t, "load_models")
  /\ UNCHANGED <<RdyKeep, bootstrap_lock, tloc, tout, volume_root, settings, calls>>

\* Lines 237-274: label statistics and scaler are read, load_all_models is
\* called; its result is stored and the flag set, or its exception leaves
\* _ensure_ready through the with block.
RLoadModels(t) ==
  /\ tpc[t] = "load_models"
  /\ LET loaded == load_all_models_call(state.property_index)
     IN  IF loaded.kind = "raised"
         THEN RPropagate(t, loaded.exc) /\ UNCHANGED state
         ELSE /\ state' = [state EXCEPT !.models = loaded.models, !.ready = TRUE]
              /\ RReturn(t)
  /\ bootstrap_lock' = 0
  /\ UNCHANGED <<RdyKeep, volume_root, settings, calls>>

\* Another container writes the downloading marker on the empty root.
RemoteClaims ==
  /\ volume_root.marker = "ABSENT"
  /\ volume_root' = DownloadingRoot("remote")
  /\ UNCHANGED <<RdyKeep, state, bootstrap_lock, tpc, tloc, tout, settings, calls>>

\* The container that wrote the marker finishes its bootstrap, fails and
\* removes the marker, or dies and leaves it.
RemoteEnds ==
  /\ volume_root.marker = "DOWNLOADING"
  /\ volume_root.owner = "remote"
  /\ volume_root' \in {ReadyRoot("remote"), AbsentRoot,
                       [volume_root EXCEPT !.owner = "dead"]}
  /\ UNCHANGED <<RdyKeep, state, bootstrap_lock, tpc, tloc, tout, settings, calls>>

RStep(t) ==
  \/ RFast(t) \/ RAcquire(t) \/ RRecheck(t) \/ REnsureCheckpoints(t) \/ RCaught(t)
  \/ RSleep(t) \/ RStoreIndex(t) \/ RLoadModels(t)

NextRdy ==
  \/ \E t \in Threads : RRequest(t)
  \/ \E t \in Threads : RStep(t)
  \/ RemoteClaims
  \/ RemoteEnds

SpecRdy == InitRdy /\ [][NextRdy]_vars

\* A thread that can take a step of _ensure_ready is scheduled in the end.
SpecRdyFair == SpecRdy /\ \A t \in Threads : WF_vars(RStep(t))

\* ------------------------------------------- the HPC consumer of index.json
\* runtime.py, lines 51-67: _load_property_index gives the dict read from
\* index.json, or raises checkpoint_missing when the file does not exist or
\* holds no member; json.load raises on a file that is not whole.
load_property_index(f) ==
  IF ~f.exists
  THEN [kind |-> "error", index |-> <<>>, code |-> "checkpoint_missing"]
  ELSE IF ~f.complete
  THEN [kind |-> "error", index |-> <<>>, code |-> "JSONDecodeError"]
  ELSE LET data == JsonLoad(f.text)
       IN  IF DOMAIN data = {}
           THEN [kind |-> "error", index |-> <<>>, code |-> "checkpoint_missing"]
           ELSE [kind |-> "index", index |-> data, code |-> ""]

\* ------------------------------------------------------------ properties
NonEmptyIndex(r) == r.kind = "index" /\ DOMAIN r.index # {}

\* C1: of the workers calling ensure_checkpoints on one root that began with
\* neither sentinel, at most one at a time is between the write of the
\* downloading marker and the end of the try block (so at most one downloads,
\* verifies and extracts).
C1_MutualExclusion == Cardinality({w \in Workers : InCritical(w)}) <= 1

\* C2: once a worker has been killed inside the critical section, every call
\* that finds the marker it left stale takes the lease over and, no operation
\* failing and no further worker being killed, runs to completion: it returns
\* the index, the ready sentinel is there and the downloading marker is gone.
C2_StaleTakeoverCompletes ==
  [][\A w \in Workers :
       (pc[w] # "done" /\ pc'[w] = "done" /\ stale[w] = "abandoned"
          /\ faults'.kill = 1 /\ faults'.io = 0)
         => (result'[w].kind = "index" /\ ready' /\ ~downloading')]_vars

\* C3: a call that finds no ready sentinel and a downloading marker younger
\* than the staleness threshold raises the in-progress error and writes
\* nothing: sentinels, index.json, archives and extracted files stay as they
\* are, and no download is started.
C3_FreshMarkerBlocks ==
  [][\A w \in Workers :
       (pc[w] = "stat_marker" /\ pc'[w] # "stat_marker"
          /\ downloading /\ age < StaleAfter)
         => /\ pc'[w] = "done"
            /\ result'[w] = Raised(InProgressError)
            /\ writes'[w] = {}
            /\ fsVars' = fsVars]_vars

C3_Witness ==
  \E w \in Workers :
    /\ pc[w] = "done" /\ result[w] = Raised(InProgressError)
    /\ ~ready /\ downloading /\ age < StaleAfter

\* C4: a call that fails inside the critical section has, when it re-raises,
\* removed the downloading marker and not written the ready sentinel.
C4_FailureReleasesLease ==
  [][\A w \in Workers :
       (InCritical(w) /\ pc'[w] = "done" /\ result'[w].kind = "error")
         => (~downloading' /\ "ready" \notin writes'[w])]_vars

\* C5: on a root holding every checkpoint, with skip_download, a call made
\* after a call that returned an index returns the same index and writes
\* nothing, index.json included.
C5_Idempotent ==
  \A w \in Workers :
    (pc[w] = "done" /\ prev[w].kind = "index" /\ result[w].kind = "index"
       /\ skip_download /\ FullTree \subseteq files)
      => (result[w].index = prev[w].index /\ writes[w] = {})

C5_Witness ==
  \E w \in Workers :
    /\ pc[w] = "done" /\ NonEmptyIndex(prev[w]) /\ NonEmptyIndex(result[w])
    /\ skip_download /\ FullTree \subseteq files

\* C6: a call that finds the ready sentinel and no index.json scans the tree,
\* persists the index and returns it, no operation failing; it writes the
\* temporary file and index.json and nothing else (no archive, no extracted
\* file, no sentinel), and when it returns index.json holds the index of the
\* tree as it is.
C6_RebuildSelfHeals ==
  [][\A w \in Workers :
       (frame[w].mode = "rebuild" /\ pc'[w] = "done" /\ faults' = faults)
         => /\ result'[w].kind = "index"
            /\ indexFile' = JsonFile(result'[w].index)
            /\ JsonLoad(indexFile'.text) \in BuildIndexResults(files')
            /\ writes'[w] = {"tmp", "index"}
            /\ ready' /\ zipFile' = zipFile /\ files' = files]_vars

C6_Witness ==
  \E w \in Workers :
    /\ pc[w] = "done" /\ NonEmptyIndex(result[w]) /\ writes[w] = {"tmp", "index"}
    /\ ready /\ indexFile = JsonFile(result[w].index)

\* C7: index.json is at every moment absent or the complete dump of one
\* index that _build_property_index returned, whatever the workers do and
\* wherever a worker is killed.
C7_IndexNeverPartial ==
  \/ indexFile = NoFile
  \/ \E fs \in SUBSET FullTree :
       \E ix \in BuildIndexResults(fs) : indexFile = JsonFile(ix)

C7_Witness ==
  /\ indexFile.exists
  /\ faults.kill > 0
  /\ \E w \in Workers : pc[w] = "wj_dump" /\ tmpFile[w] = PartialFile

\* C8: every checkpoint path of an index a call returns, the call that only
\* reads index.json included, is a file on disk.
C8_IndexPathsExist ==
  \A w \in Workers :
    (pc[w] = "done" /\ result[w].kind = "index")
      => \A p \in DOMAIN result[w].index : result[w].index[p].checkpoint \in files

C8_Witness ==
  \E w \in Workers :
    pc[w] = "done" /\ NonEmptyIndex(result[w]) /\ writes[w] = {} /\ ready

\* C9: when the digest of the downloaded archive is not the catalog's, the
\* file is removed and the call fails with the checksum error, whose message
\* holds the expected and the actual digest and which maps to the code
\* checksum_mismatch; the archive is not opened for extraction. (The call of
\* ensure_checkpoints re-raises that error when its cleanup succeeds.)
C9_ChecksumMismatch ==
  [][\A w \in Workers :
       /\ (pc[w] = "dv_md5" /\ pc'[w] \notin {"dv_md5", "idle"}
             /\ zipFile[Artifact(w)] \in {"partial", "bad"})
            => pc'[w] = "dv_reject"
       /\ (pc[w] = "dv_reject" /\ pc'[w] \notin {"dv_reject", "idle"})
            => LET name == Artifact(w)
                   expected == ARTIFACTS[name].md5
                   actual == frame[w].actual_md5
                   e == frame'[w].exc
                   text == Str(MappedError[e].message)
               IN  /\ zipFile'[name] = "absent"
                   /\ pc'[w] = "cleanup"
                   /\ actual # expected
                   /\ e = ChecksumError(name, expected, actual)
                   /\ MappedError[e].code = "checksum_mismatch"
                   /\ Contains(text, Chars(expected)) /\ Contains(text, Chars(actual))
       /\ (pc[w] = "cleanup" /\ pc'[w] = "done" /\ faults' = faults
             /\ frame[w].exc.msg # <<>>
             /\ Head(frame[w].exc.msg) = "Checksum mismatch for ")
            => result'[w].error.code = "checksum_mismatch"]_vars

C9_Witness ==
  \E w \in Workers :
    /\ pc[w] = "done" /\ result[w].error.code = "checksum_mismatch"
    /\ \E n \in DOMAIN ARTIFACTS :
         /\ result[w].exc = ChecksumError(n, ARTIFACTS[n].md5, Md5(n, "bad"))
         /\ zipFile[n] = "absent"

\* C10: for each requested mode and state of the accelerator (absent;
\* capability below the minimum; capability fine and driver below the
\* minimum; both fine), _resolve_device gives the table's result: cpu gives
\* the CPU; cuda fails with cuda_unavailable, gpu_unsupported or
\* driver_incompatible, in this precedence, and gives the accelerator when
\* both are fine; auto never fails, gives the CPU with a warning in the three
\* degraded states and the accelerator when both are fine.
Absent == ~cuda_available
CapabilityBelow == cuda_available /\ cap \in OldCapabilities
DriverBelow == cuda_available /\ cap \in NewCapabilities /\ driver_version \in OldDrivers
BothFine == cuda_available /\ cap \in NewCapabilities /\ driver_version \in NewDrivers

C10_DeviceTable ==
  (dpc = "done" /\ request \in {auto, cpu, cuda}) =>
    /\ request = cpu => device = mk_device("cpu", "")
    /\ (request = cuda /\ Absent) =>
         device.kind = "error" /\ device.error.code = "cuda_unavailable"
    /\ (request = cuda /\ CapabilityBelow) =>
         device.kind = "error" /\ device.error.code = "gpu_unsupported"
    /\ (request = cuda /\ DriverBelow) =>
         device.kind = "error" /\ device.error.code = "driver_incompatible"
    /\ (request = cuda /\ BothFine) => device = mk_device("cuda", "")
    /\ (request = auto /\ (Absent \/ CapabilityBelow \/ DriverBelow)) =>
         device.kind = "device" /\ device.type = "cpu" /\ device.warning # ""
    /\ (request = auto /\ BothFine) => device = mk_device("cuda", "")

C10_Witness ==
  /\ dpc = "done" /\ request = cuda /\ DriverBelow
  /\ mode # cuda
  /\ driver_version = <<"5", "6", "0">>
  /\ device.error.code = "driver_incompatible"

\* C11: the verdict and the exit code of every report the doctor command
\* prints follow from its warnings and fatals alone and agree: a fatal gives
\* FAIL and 2 however many warnings there are, no fatal and a warning gives
\* WARN and 1, neither gives PASS and 0.
C11_VerdictArithmetic ==
  (rpc = "done" /\ exit_status.error = "")
    => /\ report.fatals # <<>>
          => (exit_status.verdict = "FAIL" /\ exit_status.exit_code = 2)
       /\ (report.fatals = <<>> /\ report.warnings # <<>>)
          => (exit_status.verdict = "WARN" /\ exit_status.exit_code = 1)
       /\ (report.fatals = <<>> /\ report.warnings = <<>>)
          => (exit_status.verdict = "PASS" /\ exit_status.exit_code = 0)

\* A report with two warnings and a fatal has been printed as FAIL.
C11_Witness ==
  /\ rpc = "done"
  /\ Len(report.warnings) = 2
  /\ report.fatals # <<>>
  /\ exit_status.verdict = "FAIL"
  /\ exit_status.exit_code = 2

\* C12: on an empty checkpoint root missing_required_artifacts returns all
\* five required artifacts, and once a call of ensure_checkpoints has returned
\* an index on the root it returns none.
C12_NothingMissingAfterBootstrap ==
  /\ (files = {} /\ ~indexFile.exists)
       => missing_required_artifacts = DOMAIN required_artifacts
  /\ \A w \in Workers :
       (pc[w] = "done" /\ result[w].kind = "index")
         => missing_required_artifacts = {}

\* C13: two scans of the same tree return the same index (the same
\* identifiers, the same checkpoint for each) in whatever order the
\* filesystem lists the files to each of them.
C13_OrderIndependent ==
  \A v, w \in Workers :
    (pc[v] = "listed" /\ pc[w] = "listed") => result[v].index = result[w].index

\* Both workers found neither marker, wrote .downloading and have finished;
\* no operation failed and no worker was killed.
BothBootstrapped ==
  /\ \A w \in Workers : pc[w] = "done" /\ "marker" \in writes[w] /\ stale[w] = ""
  /\ faults.io = 0 /\ faults.kill = 0
  /\ ~skip_download

\* The root as a single bootstrap leaves it, and an index returned to all.
SingleWorkerOutcome ==
  /\ ready /\ ~downloading
  /\ indexFile.complete
  /\ \A p \in DOMAIN JsonLoad(indexFile.text) :
       JsonLoad(indexFile.text)[p].checkpoint \in files
  /\ FullTree \subseteq files
  /\ \A w \in Workers : result[w].kind = "index"

\* C14: when two workers both found neither marker, both claimed the lease
\* and both ran the bootstrap sequence to its end with no operation failing
\* and no worker killed, the root is as one worker alone would have left it:
\* .ready there, .downloading gone, index.json complete with every path on
\* disk, every file of both archives extracted.
C14_DuplicateBootstrapHarmless ==
  [][((\E w \in Workers : pc[w] # "done") /\ BothBootstrapped')
       => SingleWorkerOutcome']_vars

\* Worker w takes a step that creates, changes or removes an archive, an
\* extracted file, index.json or the temporary file index.json is made from.
WritesRoot(w) ==
  /\ <<pc'[w], frame'[w]>> # <<pc[w], frame[w]>>
  /\ faults'.kill = faults.kill
  /\ <<zipFile', files', indexFile', tmpFile'>> # <<zipFile, files, indexFile, tmpFile>>

\* w has written .downloading in this call and not yet left the try block.
HoldsLease(w) == InCritical(w) \/ pc[w] = "claim_write"

\* C15 as stated: every write of an archive, an extracted file or index.json
\* is made by a worker that holds the lease at that moment; a call that does
\* not hold .downloading only reads the root.
C15_WritesOnlyUnderLease ==
  [][\A w \in Workers : WritesRoot(w) => HoldsLease(w)]_vars

\* C15, amended: archives and extracted files are written only by a worker
\* that holds the lease; index.json and its temporary file are written by
\* such a worker or, without the lease, by the call that found .ready but no
\* index.json and rebuilds it; no other step of a call writes any of them.
C15_WritesUnderLeaseOrRebuild ==
  [][\A w \in Workers :
       WritesRoot(w)
         => \/ HoldsLease(w)
            \/ /\ frame[w].mode = "rebuild"
               /\ ready /\ ~HoldsLease(w)
               /\ zipFile' = zipFile /\ files' = files]_vars

\* One call has extracted files under the lease, and a later call has
\* rebuilt index.json without writing the marker.
C15_Witness ==
  \E v, w \in Workers :
    /\ pc[v] = "done" /\ {"marker", "extracted"} \subseteq writes[v]
    /\ pc[w] = "done" /\ "index" \in writes[w] /\ "marker" \notin writes[w]

DriverTooOld ==
  /\ cuda_available
  /\ parse_version_tuple(driver_version) # <<>>
  /\ version_lt(parse_version_tuple(driver_version), MIN_DRIVER_VERSION)
CapabilityTooLow == cuda_available /\ TupleLt(cap, MIN_COMPUTE_CAPABILITY)
\* A request is one for CUDA when it reads cuda in any letter case.
CudaRequestedNotPresent == Lower(cfg.device_request) = cuda /\ ~cuda_available
FatalCondition ==
  \/ ~environ.src_dir
  \/ ~environ.checkpoint_dir
  \/ DriverTooOld
  \/ CapabilityTooLow
  \/ CudaRequestedNotPresent
  \/ missing_required_artifacts # {}
Reported == rpc = "done" /\ exit_status.error = ""

C18_UnknownModeRefused ==
  (dpc = "done" /\ mode \notin {auto, cpu, cuda})
    => (device.kind = "error" /\ device.error.code = "validation_error")

\* PERIOGT_DEVICE lower-cased and stripped of blanks, auto when it is empty.
Normalized == Strip(Lower(IF mode = <<>> THEN auto ELSE mode))

\* C18, amended: a PERIOGT_DEVICE that after lower-casing and stripping of
\* blanks is none of auto, cpu, cuda (an empty one counting as auto) is
\* refused with validation_error and no device, whatever the hardware; one
\* that is, is not refused so.
C18_UnknownNormalizedModeRefused ==
  dpc = "done"
    => IF Normalized \notin {auto, cpu, cuda}
       THEN /\ device.kind = "error" /\ device.error.code = "validation_error"
            /\ device.type = ""
       ELSE ~(device.kind = "error" /\ device.error.code = "validation_error")

\* cuda:0 has been refused on a machine whose GPU and driver are fine.
C18_Witness ==
  /\ dpc = "done"
  /\ mode = <<"c", "u", "d", "a", ":", "0">>
  /\ cuda_available /\ ~TupleLt(cap, MIN_COMPUTE_CAPABILITY)
  /\ driver_version = <<"5", "6", "0", ".", "2", "8">>
  /\ device.error.code = "validation_error"

\* The archive of the artifact w is at has the digest of the catalog.
DigestMatches(w) ==
  /\ zipFile[Artifact(w)] # "absent"
  /\ Md5(Artifact(w), zipFile[Artifact(w)]) = ARTIFACTS[Artifact(w)].md5

\* C19: when the file is at its path and its digest is the expected one,
\* _download_and_verify (unless the process is killed) returns at once,
\* without a download and without touching the file; and whenever it returns, the digest it has just
\* computed of the file at the path is the expected one.
C19_CacheHitAndVerifiedReturn ==
  [][\A w \in Workers :
       /\ (pc[w] = "dv_md5_cached" /\ pc'[w] # pc[w] /\ DigestMatches(w)
             /\ faults'.kill = faults.kill)
            => /\ pc'[w] = "ex_open"
               /\ zipFile' = zipFile /\ writes' = writes /\ faults' = faults
       /\ (pc[w] \in {"dv_md5_cached", "dv_md5"} /\ pc'[w] = "ex_open")
            => /\ DigestMatches(w)
               /\ frame'[w].actual_md5 = ARTIFACTS[Artifact(w)].md5
               /\ zipFile' = zipFile]_vars

\* A call has been given the first archive from the cache: it is about to
\* open it and has written no archive itself.
C19_Witness ==
  \E w \in Workers :
    /\ pc[w] = "ex_open" /\ frame[w].art = 1
    /\ "archive" \notin writes[w]
    /\ zipFile[Artifact(w)] = "good"

\* Worker w is extracting and its extractall raises.
ExtractionFails(w) == pc[w] \in {"ex_open", "ex_entry"} /\ pc'[w] = "cleanup"

\* C20: _extract_zip removes the archive only when all its entries have been
\* extracted; when the extraction fails, that step leaves the archive and
\* the files already extracted as they are, and the call ends with an error
\* of the class model_load_failed; an entry extracted again replaces the
\* file that is there.
C20_ExtractAndDiscard ==
  [][\A w \in Workers :
       /\ (pc[w] = "ex_unlink" /\ pc'[w] # pc[w] /\ faults'.kill = faults.kill)
            => /\ frame[w].ent = Len(ArchiveEntries[Artifact(w)])
               /\ \A i \in DOMAIN ArchiveEntries[Artifact(w)] :
                    ArchiveEntries[Artifact(w)][i] \in files
               /\ zipFile'[Artifact(w)] = "absent"
       /\ ExtractionFails(w)
            => /\ zipFile' = zipFile /\ files' = files
               /\ MappedError[frame'[w].exc].code = "model_load_failed"
       /\ (pc[w] = "ex_entry" /\ pc'[w] \in {"ex_entry", "ex_unlink"}
             /\ frame'[w] # frame[w])
            => files' = files \cup {ArchiveEntries[Artifact(w)][frame'[w].ent]}]_vars

\* C21: every identifier a checkpoint is found for is in the index; one the
\* metadata table lacks has itself as label and empty units, one the table
\* has gets the label and the units of the table.
C21_UnknownIdentifiersKept ==
  \A w \in Workers :
    pc[w] = "listed"
      => /\ \A p \in PropIdsOf(files) :
              Candidates(files, p) # {} => p \in DOMAIN result[w].index
         /\ \A p \in DOMAIN result[w].index :
              IF p \in DOMAIN PROPERTY_METADATA
              THEN /\ result[w].index[p].label = PROPERTY_METADATA[p][1]
                   /\ result[w].index[p].units = PROPERTY_METADATA[p][2]
              ELSE /\ result[w].index[p].label = p
                   /\ result[w].index[p].units = ""

\* An index with the unlisted identifier visc next to tg, labelled so.
C21_Witness ==
  \E w \in Workers :
    /\ pc[w] = "listed"
    /\ {"visc", "tg"} \subseteq DOMAIN result[w].index
    /\ result[w].index["visc"].label = "visc"
    /\ result[w].index["tg"].units = "K"

\* The requests inside the with block of one property's lock.
InPropertyLock(p) ==
  {r \in Requests : qprop[r] = p /\ qpc[r] \in {"recheck", "ckpt", "load", "store"}}

C23_OriginalErrorRaised ==
  [][\A w \in Workers :
       (pc[w] = "cleanup" /\ pc'[w] = "done")
         => result'[w] = Raised(frame[w].exc)]_vars

\* C24: the error a call raises on a fresh downloading marker reaches the
\* caller with the code bootstrap_in_progress.
C24_InProgressCode ==
  \A w \in Workers :
    (pc[w] = "done" /\ result[w].kind = "error" /\ result[w].exc = InProgressError)
      => result[w].error.code = "bootstrap_in_progress"

\* The message is put together from a piece that names an unsupported
\* property.
NamesUnsupportedProperty(msg) ==
  \E i \in DOMAIN msg : msg[i] = "Unsupported property "

\* C25: map_exception gives every exception an error with a code, a message
\* and the exit code and HTTP status of that code; a PerioGTError comes back
\* as the same object, so mapping the result again changes nothing; a
\* ValueError gets unsupported_property when its message names an unsupported
\* property and validation_error otherwise.
C25_TotalAndIdempotent ==
  /\ epc \in {"mapped", "remapped"}
       => /\ mapped.exit_code = error_exit_code(mapped.code)
          /\ mapped.http_status = http_status(mapped.code)
          /\ mapped.exit_code = 2
          /\ mapped.http_status \in {422, 500}
          /\ exc_in.type # "PerioGTError"
               => /\ mapped.code \in DOMAIN ERROR_EXIT_CODE
                  /\ mapped.message \in {exc_in.msg, <<exc_in.type>>}
                  /\ Str(mapped.message) # <<>> \/ mapped.code # "internal_error"
          /\ exc_in.type = "PerioGTError"
               => /\ mapped.same_object
                  /\ mapped.code = exc_in.code
                  /\ mapped.message = exc_in.msg
                  /\ mapped.details = exc_in.details
          /\ exc_in.type = "ValueError"
               => mapped.code = IF NamesUnsupportedProperty(exc_in.msg)
                                THEN "unsupported_property"
                                ELSE "validation_error"
  /\ epc = "remapped"
       => /\ remapped.same_object
          /\ remapped = [mapped EXCEPT !.same_object = TRUE]

C25_Witness ==
  /\ epc = "remapped"
  /\ exc_in.type = "ValueError"
  /\ Len(exc_in.msg) = 2
  /\ mapped.code = "unsupported_property"
  /\ remapped.code = "unsupported_property"

\* C26: an OSError or URLError caught at a caller boundary is mapped to
\* internal_error with its own message (the name of its class when it has
\* none), whatever the message says.
C26_LowLevelIsInternalError ==
  (epc \in {"mapped", "remapped"} /\ exc_in.type \in {"OSError", "URLError"})
    => /\ mapped.code = "internal_error"
       /\ Str(exc_in.msg) # <<>> => Str(mapped.message) = Str(exc_in.msg)

\* The component of a tuple at a position, zero beyond its end.
Component(t, i) == IF i <= Len(t) THEN t[i] ELSE 0

\* a is below b in the lexicographic order of the zero-extended tuples: at
\* the first position where they differ a holds the smaller number.
LexBelow(a, b) ==
  \E i \in 1..Max(Len(a), Len(b)) :
    /\ Component(a, i) < Component(b, i)
    /\ \A j \in 1..(i - 1) : Component(a, j) = Component(b, j)

MarkerState(r, d) == IF r THEN "READY" ELSE IF d THEN "DOWNLOADING" ELSE "ABSENT"

MarkerEdges ==
  {<<"ABSENT", "DOWNLOADING">>, <<"DOWNLOADING", "READY">>, <<"DOWNLOADING", "ABSENT">>}

\* C28: every step leaves the marker state as it is or moves it along ABSENT
\* to DOWNLOADING, DOWNLOADING to READY or DOWNLOADING to ABSENT; the ready
\* sentinel, once there, stays; a call that finds the sentinel and index.json
\* returns the stored index and changes no file.
C28_MarkerStateMachine ==
  [][/\ LET from == MarkerState(ready, downloading)
            to == MarkerState(ready', downloading')
        IN  from # to => <<from, to>> \in MarkerEdges
     /\ ready => ready'
     /\ \A w \in Workers :
          (pc[w] = "read_index" /\ pc'[w] = "done")
            => /\ result'[w].kind = "index"
               /\ result'[w].index = JsonLoad(indexFile.text)
               /\ writes'[w] = {}
               /\ fsVars' = fsVars]_vars

\* index.json holds a whole document.
IndexPersisted(f) == f.exists /\ f.complete

\* C29: the step that creates the ready sentinel is taken by a call that has
\* persisted index.json and, unless it skips the downloads, has gone through
\* every artifact and extracted every entry; the success path removes the
\* downloading marker with the sentinel in place; so the sentinel never
\* stands without a whole index.json, unless index.json is lost afterwards
\* while no call runs.
C29_ReadyAfterIndex ==
  [][/\ (~ready /\ ready')
          => \E w \in Workers :
               /\ pc[w] = "write_ready" /\ pc'[w] = "ready_write"
               /\ "index" \in writes[w]
               /\ IndexPersisted(indexFile)
               /\ frame[w].skip
                    \/ (frame[w].art = Len(ArtifactNames) /\ FullTree \subseteq files)
     /\ \A w \in Workers :
          (pc[w] = "unlink_marker" /\ pc'[w] = "done") => (ready /\ ready')
     /\ (ready' /\ ~IndexPersisted(indexFile'))
          => (ready /\ (indexFile' = indexFile \/ Quiescent))]_vars

C29_Witness ==
  /\ ready /\ IndexPersisted(indexFile) /\ ~downloading
  /\ ~skip_download
  /\ faults.kill = 1
  /\ \E w \in Workers : pc[w] = "done" /\ NonEmptyIndex(result[w]) /\ "ready" \in writes[w]

\* resolve_config was called with require_checkpoint_dir and the checkpoint
\* directory does not exist.
CheckpointDirRequiredAndMissing ==
  /\ rpc \in {"raised", "returned"}
  /\ rargs.require_checkpoint_dir
  /\ ~environ.checkpoint_dir

\* C30: resolve_config called with require_checkpoint_dir on a machine
\* without the checkpoint directory raises checkpoint_missing, returns no
\* HpcConfig and has not made the results directory.
C30_CheckpointMissing ==
  CheckpointDirRequiredAndMissing
    => /\ rpc = "raised"
       /\ exit_status.error = "checkpoint_missing"
       /\ cfg = NoCfg
       /\ ~environ.results_dir

\* C30 (amended): such a call raises, returns no HpcConfig and has not made
\* the results directory; it raises checkpoint_missing when the device
\* request can be resolved, and the error of _resolve_device when not.
C30_CheckpointMissingAfterDevice ==
  CheckpointDirRequiredAndMissing
    => /\ rpc = "raised"
       /\ exit_status.error =
            IF ResolvedDevice.kind = "error" THEN ResolvedDevice.error.code
            ELSE "checkpoint_missing"
       /\ exit_status.exit_code = 2
       /\ cfg = NoCfg
       /\ ~environ.results_dir

C30_Witness ==
  /\ CheckpointDirRequiredAndMissing
  /\ rargs.create_results_dir
  /\ environ.src_dir
  /\ exit_status.error = "checkpoint_missing"
  /\ ResolvedDevice.kind = "device"

\* C31: the marker of a worker that is inside its critical section is left
\* alone by the others: no other worker judges it stale and goes on to remove
\* it and claim the lease while its holder is still running.
C31_LiveHolderNotTakenOver ==
  [][\A w \in Workers :
       (pc[w] = "stat_marker" /\ pc'[w] = "unlink_stale")
         => ~\E o \in Workers \ {w} : InCritical(o)]_vars

\* The step ends the call of w by a return or a raise.
Ends(w) == pc[w] \notin {"idle", "done"} /\ pc'[w] = "done"

\* C32: a call given a volume reloads it before it looks at the markers; it
\* is inside the try block only with the marker committed; when it returns
\* or raises after writing below the root, its last write is committed; and
\* a call that wrote nothing has committed nothing.
C32_CommitDiscipline ==
  [][\A w \in Workers :
       /\ pc'[w] \notin {"idle", "done"} => vol'[w].reloaded
       /\ InCritical(w)' => vol'[w].committed
       /\ (pc[w] = "claim_write" /\ InCritical(w)') => ~vol'[w].dirty
       /\ (Ends(w) /\ writes'[w] # {}) => (vol'[w].committed /\ ~vol'[w].dirty)
       /\ (Ends(w) /\ writes'[w] = {}) => ~vol'[w].committed]_vars

\* Labels of _download_and_verify and _extract_zip.
ArtifactLabels ==
  {"dv_exists", "dv_md5_cached", "dv_unlink", "dv_fetch", "dv_fetching", "dv_md5",
   "dv_reject", "ex_open", "ex_entry", "ex_unlink"}

\* The step is one of the call of w (not the kill of its process).
StepOf(w) == pc'[w] # pc[w] /\ faults'.kill = faults.kill

\* C33: a call with skip_download never enters _download_and_verify or
\* _extract_zip and touches no archive and no extracted file, yet it raises
\* the in-progress error on a fresh marker, and otherwise writes the marker
\* before it builds the index, replaces index.json before it writes the ready
\* sentinel and removes the marker as it returns; a call without
\* skip_download opens an archive for extraction only with its digest
\* verified and goes through the artifacts one by one in the order of
\* ARTIFACTS.
C33_SkipDownloadSameLease ==
  [][\A w \in Workers :
       /\ frame'[w].skip
            => /\ pc'[w] \notin ArtifactLabels
               /\ writes'[w] \cap {"archive", "extracted"} = {}
               /\ StepOf(w) => (zipFile' = zipFile /\ files' = files)
       /\ (StepOf(w) /\ pc[w] = "stat_marker" /\ ~IsStale(MarkerAge))
            => result'[w] = Raised(InProgressError)
       /\ (StepOf(w) /\ pc'[w] = "build")
            => (frame'[w].mode = "bootstrap" /\ "marker" \in writes'[w])
       /\ (StepOf(w) /\ pc'[w] = "write_ready") => "index" \in writes'[w]
       /\ (StepOf(w) /\ pc[w] = "unlink_marker")
            => /\ "ready" \in writes[w] /\ ~downloading'
               /\ result'[w] = Returned(frame[w].index)
       /\ (StepOf(w) /\ pc'[w] = "ex_open")
            => frame'[w].actual_md5 = ARTIFACTS[ArtifactNames[frame'[w].art]].md5
       /\ (StepOf(w) /\ pc'[w] = "dv_exists")
            => /\ ~frame'[w].skip
               /\ frame'[w].art = IF pc[w] = "claim_write" THEN 1 ELSE frame[w].art + 1
               /\ pc[w] = "ex_unlink" => frame[w].ent = Len(ArchiveEntries[Artifact(w)])
       /\ (StepOf(w) /\ pc'[w] = "build" /\ ~frame'[w].skip)
            => (pc[w] = "ex_unlink" /\ frame[w].art = Len(ArtifactNames))]_vars

C33_Witness ==
  /\ skip_download
  /\ ready /\ ~downloading /\ IndexPersisted(indexFile)
  /\ \A a \in DOMAIN zipFile : zipFile[a] = "absent"
  /\ \E w \in Workers :
       /\ pc[w] = "done" /\ NonEmptyIndex(result[w])
       /\ writes[w] = {"marker", "tmp", "index", "ready"}
  /\ \E o \in Workers : result[o] = Raised(InProgressError)

\* The setting is unset, blank or not a number float() accepts.
Unparseable(rawv) == ~rawv.set \/ Strip(rawv.text) = <<>> \/ ~ParseFloat(rawv.text).ok

\* C34: the threshold is a finite number of at least one second: 330 for an
\* unset, blank or unparseable setting, 1 for a value below 1, the value
\* itself otherwise; the marker is taken over exactly when its age, counted
\* as 0 when negative, is at least the threshold, so never at age 0.
C34_FiniteThreshold ==
  spc = "judged"
    => /\ stale_after_s.kind = "finite" /\ stale_after_s.tenths >= 10
       /\ Unparseable(raw) => stale_after_s = DefaultStaleAfter
       /\ ~Unparseable(raw)
            => LET value == ParseFloat(raw.text).value
               IN  stale_after_s = IF FloatLt(value, MinimumStaleAfter)
                                   THEN MinimumStaleAfter ELSE value
       /\ marker_age_s = Finite(IF marker_delta < 0 THEN 0 ELSE marker_delta)
       /\ takeover <=> marker_age_s.tenths >= stale_after_s.tenths
       /\ marker_age_s.tenths = 0 => ~takeover

\* Labels of the wait loop of lines 211-233.
WaitLabels == {"attempt", "caught", "sleep"}

\* The steps of the wait loop: an attempt follows the entry of the loop or a
\* sleep; a sleep follows only the in-progress error caught before the
\* timeout; the in-progress error caught at or after the timeout becomes the
\* timeout error; any other error leaves the loop as it is, at once; on a
\* bootstrapped root the attempt takes the index stored there.
C35_LoopSteps ==
  [][\A t \in Threads :
       /\ (tpc[t] # "attempt" /\ tpc'[t] = "attempt") => tpc[t] \in {"recheck", "sleep"}
       /\ (tpc[t] = "sleep" /\ tpc'[t] = "attempt")
            => tloc'[t].elapsed = IF tloc[t].elapsed < MaxClock
                                  THEN tloc[t].elapsed + 1 ELSE MaxClock
       /\ tpc'[t] = "sleep" /\ tpc[t] # "sleep"
            => /\ tpc[t] = "caught" /\ IsInProgress(tloc[t].exc)
               /\ ~FloatGe(Seconds(tloc[t].elapsed), tloc[t].wait_timeout_s)
       /\ (tpc[t] = "caught" /\ tpc'[t] # "caught" /\ IsInProgress(tloc[t].exc)
             /\ tloc[t].wait_timeout_s.kind = "finite"
             /\ PollTenths * tloc[t].elapsed >= tloc[t].wait_timeout_s.tenths)
            => (tpc'[t] = "idle" /\ tout'[t].exc = WaitTimeoutError)
       /\ (tpc[t] \in WaitLabels /\ tpc'[t] = "idle" /\ tout'[t].exc # WaitTimeoutError)
            => /\ tout'[t].exc # InProgressError
               /\ tpc[t] = "caught" => tout'[t].exc = tloc[t].exc
       /\ (tpc[t] = "attempt" /\ tpc'[t] # "attempt" /\ volume_root.marker = "READY")
            => (tpc'[t] = "store_index"
                /\ tloc'[t].property_index = volume_root.index)]_vars

\* C35: the wait loop of _ensure_ready takes the steps the claim lists, and
\* a thread inside it leaves it in the end, by the index or by an error.
C35_RetryLoopTerminates ==
  /\ C35_LoopSteps
  /\ \A t \in Threads : (tpc[t] \in WaitLabels) ~> (tpc[t] \notin WaitLabels)

\* Every call made so far has returned or raised: no call is running and no
\* process was killed inside one.
AllReturnedOrRaised == Quiescent /\ faults.kill = 0

\* C36: whenever no call of ensure_checkpoints is in progress, all calls
\* having returned or raised, .ready and .downloading are not both present
\* on the root.
C36_MarkersExclusiveAtRest ==
  AllReturnedOrRaised => ~(ready /\ downloading)

\* The step is w's unlink of an existing .downloading at line 311 (success
\* path) or line 321 (except clause).
DeletesMarker(w) ==
  /\ pc[w] \in {"unlink_marker", "cleanup"}
  /\ pc'[w] = "done"
  /\ downloading
  /\ ~downloading'

\* C37: a worker that deletes .downloading on its success path or in its
\* except clause removes a lease it holds itself: no other worker is inside
\* the critical section, relying on the marker, at that moment.
C37_UnlinksOwnLeaseOnly ==
  [][\A w \in Workers :
       DeletesMarker(w) => ~\E o \in Workers \ {w} : InCritical(o)]_vars

\* The step is w's creation of .ready (line 307).
WritesReady(w) == pc[w] = "write_ready" /\ pc'[w] = "ready_write"

\* C38: .ready is written only when the index the call built holds at least
\* one property, so that index.json on a root made READY is one the HPC
\* index loader accepts; skip_download on a root with no checkpoints does
\* not reach READY.
C38_ReadyOnlyWithProperties ==
  [][\A w \in Workers :
       WritesReady(w) =>
         /\ DOMAIN frame[w].index # {}
         /\ load_property_index(indexFile).kind = "index"]_vars

\* The labels inside the with block of _ensure_ready (lines 184-274).
BodyLabels == {"recheck", "attempt", "caught", "sleep", "store_index", "load_models"}

InBody(t) == tpc[t] \in BodyLabels

\* At most one thread is inside the with block, and it holds the lock; the
\* lock is free when no thread is inside. The flag is set only with index
\* and models stored.
C39_State ==
  /\ \A t, u \in Threads : InBody(t) /\ InBody(u) => t = u
  /\ \A t \in Threads : InBody(t) => bootstrap_lock = t
  /\ (\A t \in Threads : ~InBody(t)) => bootstrap_lock = 0
  /\ state.ready => state.property_index # "" /\ state.models # ""

\* The flag is never reset; it is set by a thread that leaves the body by a
\* return, from a flag that was false; a thread that leaves the body by an
\* exception leaves the flag false and the lock free.
C39_Step ==
  /\ state.ready => state'.ready
  /\ \A t \in Threads :
       /\ (~state.ready /\ state'.ready) =>
            \E u \in Threads : /\ tpc[u] = "load_models"
                               /\ tout'[u].kind = "returned"
                               /\ state.property_index # ""
       /\ (InBody(t) /\ tout'[t].kind \in {"http", "raised"}) =>
            /\ ~state'.ready
            /\ bootstrap_lock' = 0
            /\ tpc'[t] = "idle"

DriverUnknownGpuFine ==
  /\ cuda_available
  /\ ~TupleLt(cap, MIN_COMPUTE_CAPABILITY)
  /\ parse_version_tuple(driver_version) = <<>>

\* The request is for the accelerator or auto.
WantsAccelerator == Strip(Lower(IF mode = <<>> THEN auto ELSE mode)) \in {auto, cuda}

\* resolve_config has run, and run_doctor has.
ResolveConfigRan == environ.results_dir \/ exit_status.error # ""
RunDoctorRan == rpc \in {"emit", "done"} /\ exit_status.error = ""

\* C40: with an accelerator present, its capability at or above the minimum
\* and a driver version that was not detected or cannot be parsed, the
\* accelerator request and the auto request both resolve to the accelerator
\* (no error, no fallback), and the doctor's report holds no driver fatal.
C40_UnknownDriverPasses ==
  DriverUnknownGpuFine =>
    /\ (WantsAccelerator /\ ResolveConfigRan) =>
         /\ exit_status.error = ""
         /\ cfg.device = mk_device("cuda", "")
    /\ RunDoctorRan =>
         \A i \in DOMAIN report.fatals : report.fatals[i] # "Driver incompatible"

\* The doctor command has run to its end on such a machine with a driver
\* version of N/A, the request resolved to the accelerator.
C40_Witness ==
  /\ DriverUnknownGpuFine
  /\ driver_version = <<"N", "/", "A">>
  /\ WantsAccelerator
  /\ rpc = "done"
  /\ environ.results_dir
  /\ cfg.device.type = "cuda"

====
